---- MODULE Spec2Model ----
(***************************************************************************)
(* Inventory ledger and stock-mutating workflows of the garment backend:   *)
(* stock adjustment, purchase, sale, production run (create / complete),   *)
(* transfer (create / receive) and return, as written in                   *)
(* src/app/api/routes/*.py.                                                *)
(*                                                                         *)
(* Quantities are integers counting thousandths (the columns are           *)
(* Decimal with decimal_places=3), so 1 stands for 0.001.  Document line   *)
(* quantities are drawn from positive values; adjustment deltas are        *)
(* signed.  A handler that raises (HTTPException or an unhandled error)    *)
(* never reaches db.commit(), so the session is closed without commit and  *)
(* the database keeps its previous contents.                               *)
(***************************************************************************)
EXTENDS Integers, Sequences, FiniteSets, TLC

\* ------------------------------------------------------------------ domains
Shops == {1, 2}
Products == {1}
RawMaterials == {1}
Quantities == {1, 2}
Deltas == {-2, 1}
None == 0

\* Upper bound on the documents created plus the manual adjustments made.
MaxOps == 3

\* shop_id=1 is hard-wired as the main warehouse.
Warehouse == 1

HTTP_200_OK == 200
HTTP_400_BAD_REQUEST == 400
HTTP_403_FORBIDDEN == 403
HTTP_404_NOT_FOUND == 404
HTTP_409_CONFLICT == 409
\* global_exception_handler: an exception that is no HTTPException.
ServerError == 500

PRODUCT == "product"
RAW_MATERIAL == "raw_material"

VARIABLES
    stock,      \* stock_items: (shop_id, item_type, item id) -> row
    moves,      \* stock_movements, in insertion order
    sales,      \* sales with their sale_lines; id = index
    transfers,  \* transfers with their transfer_lines; id = index
    runs,       \* production_runs with lines and consumptions; id = index
    purchases,  \* purchases with their purchase_lines; id = index
    returns,    \* returns; id = index
    last,       \* the last handler run, its response, the stock it started from
    sess        \* open sessions of concurrently running sale requests

vars == <<stock, moves, sales, transfers, runs, purchases, returns, last, sess>>

\* The committed database as one value.
DB ==
    [stock |-> stock, moves |-> moves, sales |-> sales, transfers |-> transfers,
     runs |-> runs, purchases |-> purchases, returns |-> returns]

EmptyDB ==
    [stock |-> <<>>, moves |-> <<>>, sales |-> <<>>, transfers |-> <<>>,
     runs |-> <<>>, purchases |-> <<>>, returns |-> <<>>]

\* ------------------------------------------------------------------ rows
Key(shop, item_type, id) == <<shop, item_type, id>>

StockItem(q) == [quantity |-> q, reserved_quantity |-> 0]

StockMovement(shop, item_type, product_id, raw_material_id, q, reason, ref_id, ref_type) ==
    [shop_id |-> shop, item_type |-> item_type, product_id |-> product_id,
     raw_material_id |-> raw_material_id, quantity |-> q, reason |-> reason,
     reference_id |-> ref_id, reference_type |-> ref_type]

MovementReason ==
    {"purchase", "production_add", "production_consume", "transfer_in",
     "transfer_out", "sale", "return", "adjustment"}

\* available_quantity = stock_item.quantity - stock_item.reserved_quantity
available_quantity(row) == row.quantity - row.reserved_quantity

\* A handler's result: the response code and the database it leaves committed.
Ok(db) == [code |-> HTTP_200_OK, db |-> db]
Fail(code, db) == [code |-> code, db |-> db]

RECURSIVE SumSeq(_)
SumSeq(s) == IF s = <<>> THEN 0 ELSE Head(s) + SumSeq(Tail(s))

\* select(StockItem).where(<item id> == id, item_type == t) without a shop
\* filter: the shops holding a row for the item.
ShopsHolding(st, item_type, id) == {s \in Shops : Key(s, item_type, id) \in DOMAIN st}

\* ------------------------------------------------------------------ catalog
\* raw_materials table: unit_price per raw material.
raw_materials == [m \in RawMaterials |-> [unit_price |-> 3]]

\* fabric_rules table.
fabric_rules == <<[product_id |-> 1, raw_material_id |-> 1, consumption_per_unit |-> 1]>>

\* ------------------------------------------------------------------ adjust_stock
\* The rows the statement of adjust_stock selects: shop and item type always,
\* product_id / raw_material_id only when the request gives a truthy one.
AdjustMatches(st, adjustment) ==
    {k \in DOMAIN st :
        /\ k[1] = adjustment.shop_id
        /\ k[2] = adjustment.item_type
        /\ (adjustment.product_id # None =>
                k[2] = PRODUCT /\ k[3] = adjustment.product_id)
        /\ (adjustment.raw_material_id # None =>
                k[2] = RAW_MATERIAL /\ k[3] = adjustment.raw_material_id)}

\* Variant: the quantity stops at zero.
AdjustQuantityFloor(row, delta) ==
    [row EXCEPT !.quantity = IF @ + delta < 0 THEN 0 ELSE @ + delta]

\* stock_item.quantity += adjustment.quantity
AdjustQuantity(row, delta) == [row EXCEPT !.quantity = @ + delta]

\* adjust_stock with k the row .first() returned (None when nothing matches).
adjust_stock(db, adjustment, k) ==
    IF AdjustMatches(db.stock, adjustment) = {}
    THEN Fail(HTTP_404_NOT_FOUND, db)
    ELSE IF adjustment.reason \notin MovementReason
    THEN Fail(ServerError, db)
    ELSE Ok([db EXCEPT
            !.stock = [db.stock EXCEPT ![k] = AdjustQuantity(@, adjustment.quantity)],
            !.moves = Append(@, StockMovement(adjustment.shop_id, adjustment.item_type,
                                adjustment.product_id, adjustment.raw_material_id,
                                adjustment.quantity, adjustment.reason, None, "none"))])

\* ------------------------------------------------------------------ create_purchase
RECURSIVE PurchaseTotal(_)
PurchaseTotal(lines) ==
    IF lines = <<>> THEN 0
    ELSE Head(lines).quantity * Head(lines).unit_price + PurchaseTotal(Tail(lines))

\* scalar_one_or_none() raises MultipleResultsFound on more than one row.
PurchaseAmbiguous(st, lines) ==
    \E i \in DOMAIN lines :
        Cardinality(ShopsHolding(st, RAW_MATERIAL, lines[i].raw_material_id)) > 1

\* Variant: an existing stock item is set to the line quantity.
PurchaseLineStockSet(st, line) ==
    LET held == ShopsHolding(st, RAW_MATERIAL, line.raw_material_id) IN
    IF held = {}
    THEN st @@ (Key(Warehouse, RAW_MATERIAL, line.raw_material_id) :> StockItem(line.quantity))
    ELSE LET k == Key(CHOOSE s \in held : TRUE, RAW_MATERIAL, line.raw_material_id)
         IN  [st EXCEPT ![k].quantity = line.quantity]

\* One purchase line: find the raw material's stock item (in any shop) or
\* create it at the warehouse, and add the line quantity.
PurchaseLineStock(st, line) ==
    LET held == ShopsHolding(st, RAW_MATERIAL, line.raw_material_id) IN
    IF held = {}
    THEN st @@ (Key(Warehouse, RAW_MATERIAL, line.raw_material_id) :> StockItem(line.quantity))
    ELSE LET k == Key(CHOOSE s \in held : TRUE, RAW_MATERIAL, line.raw_material_id)
         IN  [st EXCEPT ![k].quantity = @ + line.quantity]

RECURSIVE PurchaseStock(_, _)
PurchaseStock(st, lines) ==
    IF lines = <<>> THEN st
    ELSE PurchaseStock(PurchaseLineStock(st, Head(lines)), Tail(lines))

PurchaseMovements(lines, id) ==
    [i \in DOMAIN lines |->
        StockMovement(Warehouse, RAW_MATERIAL, None, lines[i].raw_material_id,
                      lines[i].quantity, "purchase", id, "purchase")]

\* The ambiguity of a later line is judged on the stock the earlier lines left,
\* which holds the same set of rows per material as before or one more at the
\* warehouse; a material is ambiguous before the loop iff it is during it.
create_purchase(db, data) ==
    LET id == Len(db.purchases) + 1 IN
    IF PurchaseAmbiguous(db.stock, data.purchase_lines)
    THEN Fail(ServerError, db)
    ELSE Ok([db EXCEPT
            !.purchases = Append(@, [total_amount |-> PurchaseTotal(data.purchase_lines),
                                     status |-> "received",
                                     purchase_lines |-> data.purchase_lines]),
            !.stock = PurchaseStock(@, data.purchase_lines),
            !.moves = @ \o PurchaseMovements(data.purchase_lines, id)])

\* ------------------------------------------------------------------ create_sale
\* Role restrictions: a shop manager's sales go to the manager's shop, a
\* staff member's to the assigned shop when there is one.
SaleForbidden(user, shop_id) ==
    \/ user.role = "shop_manager" /\ user.shop_id = None
    \/ user.role = "staff" /\ user.shop_id = None /\ shop_id = None

SaleShop(user, shop_id) ==
    IF user.role = "shop_manager" THEN user.shop_id
    ELSE IF user.role = "staff" /\ user.shop_id # None THEN user.shop_id
    ELSE shop_id

\* total_amount = sum(line.quantity * line.unit_price for line in sale_lines)
RECURSIVE SaleTotal(_)
SaleTotal(lines) ==
    IF lines = <<>> THEN 0
    ELSE Head(lines).quantity * Head(lines).unit_price + SaleTotal(Tail(lines))

\* Variant: the discount is not taken off.
FinalAmountGross(total_amount, discount_amount) == total_amount

FinalAmount(total_amount, discount_amount) == total_amount - discount_amount

\* Variant: availability compared against on-hand quantity, ignoring reservations
LineShortOnHand(st, shop, line) ==
    \/ Key(shop, PRODUCT, line.product_id) \notin DOMAIN st
    \/ st[Key(shop, PRODUCT, line.product_id)].quantity < line.quantity

\* One line of the availability loop, against the stock the session sees.
LineShort(st, shop, line) ==
    \/ Key(shop, PRODUCT, line.product_id) \notin DOMAIN st
    \/ available_quantity(st[Key(shop, PRODUCT, line.product_id)]) < line.quantity

\* Variant: the availability loop stops after the first line.
ShortLinesFirst(st, shop, lines) == {i \in {1} : LineShort(st, shop, lines[1])}

\* "Validate stock availability": the lines of the request that fail.
ShortLines(st, shop, lines) == {i \in DOMAIN lines : LineShort(st, shop, lines[i])}

\* stock_item.quantity -= line_data.quantity, line after line.
RECURSIVE SaleDeduct(_, _, _)
SaleDeduct(st, shop, lines) ==
    IF lines = <<>> THEN st
    ELSE SaleDeduct(
            [st EXCEPT ![Key(shop, PRODUCT, Head(lines).product_id)].quantity =
                            @ - Head(lines).quantity],
            shop, Tail(lines))

SaleMovements(shop, lines, id) ==
    [i \in DOMAIN lines |->
        StockMovement(shop, PRODUCT, lines[i].product_id, None,
                      -lines[i].quantity, "sale", id, "sale")]

SaleRow(data, shop) ==
    [sale_number |-> data.sale_number, shop_id |-> shop,
     total_amount |-> SaleTotal(data.sale_lines),
     discount_amount |-> data.discount_amount,
     final_amount |-> FinalAmount(SaleTotal(data.sale_lines), data.discount_amount),
     status |-> "completed", sale_lines |-> data.sale_lines]

\* Variant: no stored sale is found under any number.
SaleNumberFree(db, number) == FALSE

SaleNumberExists(db, number) == \E i \in DOMAIN db.sales : db.sales[i].sale_number = number

create_sale(db, user, data) ==
    LET shop == SaleShop(user, data.shop_id)
        id == Len(db.sales) + 1
    IN  IF SaleForbidden(user, data.shop_id) THEN Fail(HTTP_403_FORBIDDEN, db)
        ELSE IF SaleNumberExists(db, data.sale_number) THEN Fail(HTTP_400_BAD_REQUEST, db)
        ELSE IF ShortLines(db.stock, shop, data.sale_lines) # {}
        THEN Fail(HTTP_409_CONFLICT, db)
        ELSE Ok([db EXCEPT
                !.sales = Append(@, SaleRow(data, shop)),
                !.stock = SaleDeduct(@, shop, data.sale_lines),
                !.moves = @ \o SaleMovements(shop, data.sale_lines, id)])

\* ------------------------------------------------------------------ create_return
ReturnNumberExists(db, number) ==
    \E i \in DOMAIN db.returns : db.returns[i].return_number = number

\* Variant: every return goes to the default warehouse.
ReturnShopDefault(db, sale_id) == Warehouse

\* "use shop from sale if available, otherwise default to shop 1"
ReturnShop(db, sale_id) ==
    IF sale_id # None /\ sale_id \in DOMAIN db.sales THEN db.sales[sale_id].shop_id
    ELSE Warehouse

ReturnStock(st, shop, product_id, q) ==
    IF Key(shop, PRODUCT, product_id) \in DOMAIN st
    THEN [st EXCEPT ![Key(shop, PRODUCT, product_id)].quantity = @ + q]
    ELSE st @@ (Key(shop, PRODUCT, product_id) :> StockItem(q))

create_return(db, data) ==
    LET id == Len(db.returns) + 1
        shop == ReturnShop(db, data.sale_id)
    IN  IF ReturnNumberExists(db, data.return_number) THEN Fail(HTTP_400_BAD_REQUEST, db)
        ELSE Ok([db EXCEPT
                !.returns = Append(@, [return_number |-> data.return_number,
                                       sale_id |-> data.sale_id,
                                       product_id |-> data.product_id,
                                       quantity |-> data.quantity,
                                       unit_price |-> data.unit_price,
                                       total_amount |-> data.quantity * data.unit_price]),
                !.stock = ReturnStock(@, shop, data.product_id, data.quantity),
                !.moves = Append(@, StockMovement(shop, PRODUCT, data.product_id, None,
                                        data.quantity, "return", id, "return"))])

\* ------------------------------------------------------------------ create_transfer
TransferNumberExists(db, number) ==
    \E i \in DOMAIN db.transfers : db.transfers[i].transfer_number = number

\* Variant: only the first line is validated.
TransferValidateFirst(st, shop, lines) ==
    IF lines = <<>> THEN HTTP_200_OK
    ELSE IF Key(shop, PRODUCT, lines[1].product_id) \notin DOMAIN st
    THEN HTTP_400_BAD_REQUEST
    ELSE IF available_quantity(st[Key(shop, PRODUCT, lines[1].product_id)])
                < lines[1].quantity
    THEN HTTP_409_CONFLICT
    ELSE HTTP_200_OK

\* "Validate stock availability at source shop": the response of the first
\* line that fails (a missing stock item is a bad request, a shortfall a
\* conflict), HTTP_200_OK when every line passes.
RECURSIVE TransferValidate(_, _, _)
TransferValidate(st, shop, lines) ==
    IF lines = <<>> THEN HTTP_200_OK
    ELSE IF Key(shop, PRODUCT, Head(lines).product_id) \notin DOMAIN st
    THEN HTTP_400_BAD_REQUEST
    ELSE IF available_quantity(st[Key(shop, PRODUCT, Head(lines).product_id)])
                < Head(lines).quantity
    THEN HTTP_409_CONFLICT
    ELSE TransferValidate(st, shop, Tail(lines))

\* stock_item.reserved_quantity += line_data.quantity, line after line.
\* Variant: the line is also taken off the on-hand quantity at create.
ReserveLineDeduct(st, shop, line) ==
    [st EXCEPT ![Key(shop, PRODUCT, line.product_id)] =
        [quantity |-> @.quantity - line.quantity,
         reserved_quantity |-> @.reserved_quantity + line.quantity]]

\* source_stock_item.reserved_quantity += line_data.quantity
ReserveLine(st, shop, line) ==
    [st EXCEPT ![Key(shop, PRODUCT, line.product_id)].reserved_quantity =
        @ + line.quantity]

RECURSIVE TransferReserve(_, _, _)
TransferReserve(st, shop, lines) ==
    IF lines = <<>> THEN st
    ELSE TransferReserve(ReserveLine(st, shop, Head(lines)), shop, Tail(lines))

TransferOutMovements(shop, lines, id) ==
    [i \in DOMAIN lines |->
        StockMovement(shop, PRODUCT, lines[i].product_id, None,
                      -lines[i].quantity, "transfer_out", id, "transfer")]

create_transfer(db, data) ==
    LET id == Len(db.transfers) + 1
        checked == TransferValidate(db.stock, data.from_shop_id, data.transfer_lines)
    IN  IF TransferNumberExists(db, data.transfer_number)
        THEN Fail(HTTP_400_BAD_REQUEST, db)
        ELSE IF checked # HTTP_200_OK THEN Fail(checked, db)
        ELSE Ok([db EXCEPT
                !.transfers = Append(@, [transfer_number |-> data.transfer_number,
                                         from_shop_id |-> data.from_shop_id,
                                         to_shop_id |-> data.to_shop_id,
                                         status |-> "pending",
                                         transfer_lines |-> data.transfer_lines]),
                !.stock = TransferReserve(@, data.from_shop_id, data.transfer_lines),
                !.moves = @ \o TransferOutMovements(data.from_shop_id,
                                                    data.transfer_lines, id)])

\* ------------------------------------------------------------------ receive_transfer
\* One transfer line at receive: the source row loses the quantity from
\* on-hand and from reserved, then the destination row gains it (created
\* with reserved 0 when absent).
\* Variant: the receipt takes the quantity off the source and leaves its
\* reservation in place.
ReceiveLineKeepReserved(st, from_shop, to_shop, line) ==
    LET src == Key(from_shop, PRODUCT, line.product_id)
        dst == Key(to_shop, PRODUCT, line.product_id)
        out == [st EXCEPT ![src].quantity = @ - line.quantity]
    IN  IF dst \in DOMAIN out
        THEN [out EXCEPT ![dst].quantity = @ + line.quantity]
        ELSE out @@ (dst :> StockItem(line.quantity))

ReceiveLine(st, from_shop, to_shop, line) ==
    LET src == Key(from_shop, PRODUCT, line.product_id)
        dst == Key(to_shop, PRODUCT, line.product_id)
        out == [st EXCEPT ![src] = [quantity |-> @.quantity - line.quantity,
                                    reserved_quantity |-> @.reserved_quantity - line.quantity]]
    IN  IF dst \in DOMAIN out
        THEN [out EXCEPT ![dst].quantity = @ + line.quantity]
        ELSE out @@ (dst :> StockItem(line.quantity))

RECURSIVE ReceiveLines(_, _, _, _)
ReceiveLines(st, from_shop, to_shop, lines) ==
    IF lines = <<>> THEN st
    ELSE ReceiveLines(ReceiveLine(st, from_shop, to_shop, Head(lines)),
                      from_shop, to_shop, Tail(lines))

\* Variant: the receipt is not logged.
TransferInMovementsNone(shop, lines, id) == <<>>

TransferInMovements(shop, lines, id) ==
    [i \in DOMAIN lines |->
        StockMovement(shop, PRODUCT, lines[i].product_id, None,
                      lines[i].quantity, "transfer_in", id, "transfer")]

\* source_stock_item is used without a None check.
ReceiveSourceMissing(st, transfer) ==
    \E i \in DOMAIN transfer.transfer_lines :
        Key(transfer.from_shop_id, PRODUCT, transfer.transfer_lines[i].product_id)
            \notin DOMAIN st

\* Variant: any transfer that exists can be received.
TransferNeverRefused(transfer) == FALSE

\* if transfer.status != TransferStatus.PENDING: "Transfer is not in pending status"
TransferNotPending(transfer) == transfer.status # "pending"

receive_transfer(db, transfer_id) ==
    IF transfer_id \notin DOMAIN db.transfers THEN Fail(HTTP_404_NOT_FOUND, db)
    ELSE LET transfer == db.transfers[transfer_id] IN
         IF TransferNotPending(transfer) THEN Fail(HTTP_400_BAD_REQUEST, db)
         ELSE IF ReceiveSourceMissing(db.stock, transfer) THEN Fail(ServerError, db)
         ELSE Ok([db EXCEPT
                 !.stock = ReceiveLines(@, transfer.from_shop_id, transfer.to_shop_id,
                                        transfer.transfer_lines),
                 !.moves = @ \o TransferInMovements(transfer.to_shop_id,
                                                    transfer.transfer_lines, transfer_id),
                 !.transfers[transfer_id].status = "received"])

\* ------------------------------------------------------------------ create_production_run
RunNumberExists(db, number) == \E i \in DOMAIN db.runs : db.runs[i].run_number = number

\* The consumption rows one production line gets from the fabric rules.
\* Variant: the consumption of a rule is not multiplied by the line's
\* planned quantity.
RuleConsumptionsPerUnit(rules, line) ==
    LET matching == SelectSeq(rules, LAMBDA rule : rule.product_id = line.product_id) IN
    [i \in DOMAIN matching |->
        [raw_material_id |-> matching[i].raw_material_id,
         planned_consumption |-> matching[i].consumption_per_unit]]

RECURSIVE RuleConsumptions(_, _)
RuleConsumptions(rules, line) ==
    IF rules = <<>> THEN <<>>
    ELSE (IF Head(rules).product_id = line.product_id
          THEN <<[raw_material_id |-> Head(rules).raw_material_id,
                  planned_consumption |->
                      Head(rules).consumption_per_unit * line.planned_quantity]>>
          ELSE <<>>)
         \o RuleConsumptions(Tail(rules), line)

RECURSIVE AutoConsumptions(_)
AutoConsumptions(lines) ==
    IF lines = <<>> THEN <<>>
    ELSE RuleConsumptions(fabric_rules, Head(lines)) \o AutoConsumptions(Tail(lines))

\* "Create production consumptions (if provided, otherwise auto-calculate)"
RunConsumptions(data) ==
    IF data.production_consumptions # <<>> THEN data.production_consumptions
    ELSE AutoConsumptions(data.production_lines)

create_production_run(db, data) ==
    IF RunNumberExists(db, data.run_number) THEN Fail(HTTP_400_BAD_REQUEST, db)
    ELSE Ok([db EXCEPT
            !.runs = Append(@, [run_number |-> data.run_number,
                                planned_quantity |-> data.planned_quantity,
                                actual_quantity |-> None,
                                labor_cost |-> data.labor_cost,
                                overhead_cost |-> data.overhead_cost,
                                total_cost |-> None,
                                status |-> "planned",
                                production_lines |-> data.production_lines,
                                production_consumptions |-> RunConsumptions(data)])])

\* ------------------------------------------------------------------ complete_production_run
\* The row a statement without shop filter finds for an item that exactly one
\* shop holds.
HeldKey(st, item_type, id) ==
    Key(CHOOSE s \in ShopsHolding(st, item_type, id) : TRUE, item_type, id)

\* Variant: only the first consumption is validated.
ConsumptionValidateFirst(st, cons) ==
    LET held == ShopsHolding(st, RAW_MATERIAL, cons[1].raw_material_id) IN
    IF cons = <<>> THEN HTTP_200_OK
    ELSE IF held = {} THEN HTTP_400_BAD_REQUEST
    ELSE IF \E s \in held :
                available_quantity(st[Key(s, RAW_MATERIAL, cons[1].raw_material_id)])
                    < cons[1].planned_consumption
    THEN HTTP_409_CONFLICT
    ELSE HTTP_200_OK

\* "Validate raw material availability": the response of the first
\* consumption that fails, HTTP_200_OK when all pass.
RECURSIVE ConsumptionValidate(_, _)
ConsumptionValidate(st, cons) ==
    IF cons = <<>> THEN HTTP_200_OK
    ELSE LET held == ShopsHolding(st, RAW_MATERIAL, Head(cons).raw_material_id) IN
         IF Cardinality(held) > 1 THEN ServerError
         ELSE IF held = {} THEN HTTP_400_BAD_REQUEST
         ELSE IF available_quantity(st[HeldKey(st, RAW_MATERIAL, Head(cons).raw_material_id)])
                    < Head(cons).planned_consumption
         THEN HTTP_409_CONFLICT
         ELSE ConsumptionValidate(st, Tail(cons))

\* stock_item.quantity -= consumption.planned_consumption, row after row.
RECURSIVE Consume(_, _)
Consume(st, cons) ==
    IF cons = <<>> THEN st
    ELSE Consume([st EXCEPT ![HeldKey(st, RAW_MATERIAL, Head(cons).raw_material_id)].quantity =
                                @ - Head(cons).planned_consumption],
                 Tail(cons))

\* raw_material_cost += raw_material.unit_price * consumption.planned_consumption
RECURSIVE RawMaterialCost(_)
RawMaterialCost(cons) ==
    IF cons = <<>> THEN 0
    ELSE raw_materials[Head(cons).raw_material_id].unit_price * Head(cons).planned_consumption
         + RawMaterialCost(Tail(cons))

\* raw_material is used without a None check.
RawMaterialMissing(cons) ==
    \E i \in DOMAIN cons : cons[i].raw_material_id \notin DOMAIN raw_materials

ProductAmbiguous(st, lines) ==
    \E i \in DOMAIN lines :
        Cardinality(ShopsHolding(st, PRODUCT, lines[i].product_id)) > 1

\* One production line: add to the product's stock item (found in any shop)
\* or create it at the warehouse.
ProduceLine(st, line) ==
    IF ShopsHolding(st, PRODUCT, line.product_id) = {}
    THEN st @@ (Key(Warehouse, PRODUCT, line.product_id) :> StockItem(line.planned_quantity))
    ELSE [st EXCEPT ![HeldKey(st, PRODUCT, line.product_id)].quantity =
                        @ + line.planned_quantity]

RECURSIVE Produce(_, _)
Produce(st, lines) ==
    IF lines = <<>> THEN st
    ELSE Produce(ProduceLine(st, Head(lines)), Tail(lines))

ConsumeMovements(cons, id) ==
    [i \in DOMAIN cons |->
        StockMovement(Warehouse, RAW_MATERIAL, None, cons[i].raw_material_id,
                      -cons[i].planned_consumption, "production_consume",
                      id, "production_run")]

ProduceMovements(lines, id) ==
    [i \in DOMAIN lines |->
        StockMovement(Warehouse, PRODUCT, lines[i].product_id, None,
                      lines[i].planned_quantity, "production_add", id, "production_run")]

TotalCost(run) ==
    RawMaterialCost(run.production_consumptions) + run.labor_cost + run.overhead_cost

\* Variant: only a cancelled run is refused.
RunCancelled(run) == run.status = "cancelled"

\* if production_run.status != ProductionStatus.PLANNED:
\* "Production run is not in planned status"
RunNotPlanned(run) == run.status # "planned"

complete_production_run(db, production_run_id) ==
    IF production_run_id \notin DOMAIN db.runs THEN Fail(HTTP_404_NOT_FOUND, db)
    ELSE LET run == db.runs[production_run_id]
             checked == ConsumptionValidate(db.stock, run.production_consumptions)
         IN
         IF RunNotPlanned(run) THEN Fail(HTTP_400_BAD_REQUEST, db)
         ELSE IF checked # HTTP_200_OK THEN Fail(checked, db)
         ELSE IF RawMaterialMissing(run.production_consumptions) THEN Fail(ServerError, db)
         ELSE IF ProductAmbiguous(db.stock, run.production_lines) THEN Fail(ServerError, db)
         ELSE Ok([db EXCEPT
                 !.stock = Produce(Consume(@, run.production_consumptions),
                                   run.production_lines),
                 !.moves = @ \o ConsumeMovements(run.production_consumptions,
                                                 production_run_id)
                             \o ProduceMovements(run.production_lines, production_run_id),
                 !.runs[production_run_id] =
                     [@ EXCEPT !.total_cost = TotalCost(run),
                               !.status = "completed",
                               !.actual_quantity = run.planned_quantity]])

\* ------------------------------------------------------------------ requests
Prices == {3}
Discounts == {1}

\* Callers of create_sale with the shop_id their request carries: an admin
\* selling at either shop, a manager of shop 2 asking for shop 1, a manager
\* and a staff member without a shop.
Callers ==
    {<<[role |-> "admin", shop_id |-> None], 1>>,
     <<[role |-> "admin", shop_id |-> None], 2>>,
     <<[role |-> "shop_manager", shop_id |-> 2], 1>>,
     <<[role |-> "shop_manager", shop_id |-> None], 1>>,
     <<[role |-> "staff", shop_id |-> None], None>>}

\* Documents of one or two lines; the ledger-wide specification, which runs
\* every workflow, takes single-line documents.
OneOrTwo == {1, 2}
One == {1}

\* The sequences over S with a length in counts.
Lines(S, counts) == UNION {[1 .. n -> S] : n \in counts}

\* Document numbers are opaque keys that are only compared for equality: a
\* request carries the number of the first document, which is taken once
\* there is one, or a fresh one.
Numbers(table) == {1, Len(table) + 1}

\* Ids a request can name: those of the existing rows and one that is absent.
Ids(table) == 1 .. Len(table) + 1

AdjustRequests ==
    {r \in [shop_id : Shops, item_type : {PRODUCT, RAW_MATERIAL},
            product_id : Products \cup {None}, raw_material_id : RawMaterials \cup {None},
            quantity : Deltas, reason : {"adjustment", "stocktake"}] :
        r.product_id = None \/ r.raw_material_id = None}

PurchaseRequests(counts) ==
    [purchase_lines : Lines([raw_material_id : RawMaterials, quantity : Quantities,
                             unit_price : Prices], counts)]

SaleLines(counts) ==
    Lines([product_id : Products, quantity : Quantities, unit_price : Prices], counts)

SaleRequests(counts) ==
    {[sale_number |-> n, shop_id |-> c[2], discount_amount |-> d, sale_lines |-> l] :
        n \in Numbers(sales), c \in Callers, d \in Discounts, l \in SaleLines(counts)}

ReturnRequests ==
    [return_number : Numbers(returns), sale_id : Ids(sales) \cup {None},
     product_id : Products, quantity : Quantities, unit_price : Prices]

TransferBodies(counts) ==
    [from_shop_id : Shops, to_shop_id : Shops,
     transfer_lines : Lines([product_id : Products, quantity : Quantities,
                             unit_cost : Prices], counts)]

\* Every body under a fresh number; a taken number is refused before the
\* rest of the request is looked at, so one body carries it.
TransferRequests(counts) ==
    {[transfer_number |-> Len(transfers) + 1] @@ b : b \in TransferBodies(counts)}
    \cup {[transfer_number |-> n, from_shop_id |-> 1, to_shop_id |-> 2,
           transfer_lines |-> <<[product_id |-> 1, quantity |-> 1, unit_cost |-> 3]>>] :
            n \in Numbers(transfers) \cap (1 .. Len(transfers))}

RunRequests(counts) ==
    [run_number : Numbers(runs), planned_quantity : {2}, labor_cost : {1},
     overhead_cost : {2},
     production_lines : Lines([product_id : Products, planned_quantity : {1}], counts),
     production_consumptions :
        {<<>>} \cup Lines([raw_material_id : RawMaterials,
                           planned_consumption : Quantities], counts)]

\* ------------------------------------------------------------------ state machine
NoSessions == <<>>

Init ==
    /\ stock = EmptyDB.stock
    /\ moves = <<>>
    /\ sales = <<>>
    /\ transfers = <<>>
    /\ runs = <<>>
    /\ purchases = <<>>
    /\ returns = <<>>
    /\ last = [op |-> "none", code |-> 0, before |-> EmptyDB.stock]
    /\ sess = NoSessions

\* Documents created plus manual adjustments made so far.
Operations(db) ==
    Len(db.sales) + Len(db.transfers) + Len(db.runs) + Len(db.purchases) + Len(db.returns)
    + Cardinality({i \in DOMAIN db.moves : db.moves[i].reference_type = "none"})

\* db.commit() of a handler's outcome, or its rollback: either way the
\* database is the outcome's.
Store(op, out) ==
    /\ stock' = out.db.stock
    /\ moves' = out.db.moves
    /\ sales' = out.db.sales
    /\ transfers' = out.db.transfers
    /\ runs' = out.db.runs
    /\ purchases' = out.db.purchases
    /\ returns' = out.db.returns
    /\ last' = [op |-> op, code |-> out.code, before |-> stock]
    /\ UNCHANGED sess

\* A handler's response, while the ledger stays within MaxOps operations.
Respond(op, out) ==
    /\ Operations(out.db) <= MaxOps
    /\ Store(op, out)

AdjustStock ==
    \E adjustment \in AdjustRequests :
        \/ /\ AdjustMatches(stock, adjustment) = {}
           /\ Respond("adjust_stock", adjust_stock(DB, adjustment, <<>>))
        \/ \E k \in AdjustMatches(stock, adjustment) :
             Respond("adjust_stock", adjust_stock(DB, adjustment, k))

CreatePurchase(counts) ==
    \E data \in PurchaseRequests(counts) :
        Respond("create_purchase", create_purchase(DB, data))

CreateSale(counts) ==
    \E caller \in Callers, data \in SaleRequests(counts) :
        /\ data.shop_id = caller[2]
        /\ Respond("create_sale", create_sale(DB, caller[1], data))

CreateReturn ==
    \E data \in ReturnRequests :
        Respond("create_return", create_return(DB, data))

CreateTransfer(counts) ==
    \E data \in TransferRequests(counts) :
        Respond("create_transfer", create_transfer(DB, data))

ReceiveTransfer ==
    \E transfer_id \in Ids(transfers) :
        Respond("receive_transfer", receive_transfer(DB, transfer_id))

CreateProductionRun(counts) ==
    \E data \in RunRequests(counts) :
        Respond("create_production_run", create_production_run(DB, data))

CompleteProductionRun ==
    \E production_run_id \in Ids(runs) :
        Respond("complete_production_run",
                complete_production_run(DB, production_run_id))

\* Every workflow on one ledger, with single-line documents.
Next ==
    \/ AdjustStock
    \/ CreatePurchase(One)
    \/ CreateSale(One)
    \/ CreateReturn
    \/ CreateTransfer(One)
    \/ ReceiveTransfer
    \/ CreateProductionRun(One)
    \/ CompleteProductionRun

Spec == Init /\ [][Next]_vars

\* ------------------------------------------------------------------ workflows
\* Sales: returns bring product stock in, transfers reserve it, sales sell it.
NextSale == CreateReturn \/ CreateTransfer(OneOrTwo) \/ CreateSale(OneOrTwo)

SpecSale == Init /\ [][NextSale]_vars

\* Transfers between shops of stock that returns brought in.
NextTransfer == CreateReturn \/ CreateTransfer(OneOrTwo) \/ ReceiveTransfer

SpecTransfer == Init /\ [][NextTransfer]_vars

\* Production: single-line purchases bring raw material in, runs of one or
\* two lines consume it.
NextProduction ==
    \/ CreatePurchase(One)
    \/ CreateProductionRun(OneOrTwo)
    \/ CompleteProductionRun

SpecProduction == Init /\ [][NextProduction]_vars

\* ------------------------------------------------------------------ properties
\* The signed sum of the movement quantities logged for an item at a shop.
RECURSIVE MovementSum(_, _, _, _)
MovementSum(log, shop, item_type, id) ==
    IF log = <<>> THEN 0
    ELSE (IF /\ Head(log).shop_id = shop
             /\ Head(log).item_type = item_type
             /\ (IF item_type = PRODUCT THEN Head(log).product_id
                 ELSE Head(log).raw_material_id) = id
          THEN Head(log).quantity ELSE 0)
         + MovementSum(Tail(log), shop, item_type, id)

OnHand(st, k) == IF k \in DOMAIN st THEN st[k].quantity ELSE 0

Reserved(st, k) == IF k \in DOMAIN st THEN st[k].reserved_quantity ELSE 0

ItemKeys ==
    {Key(s, PRODUCT, p) : s \in Shops, p \in Products}
    \cup {Key(s, RAW_MATERIAL, m) : s \in Shops, m \in RawMaterials}

\* C1: every stock position satisfies 0 <= reserved_quantity <= quantity in
\* every committed state.
C1_ReservedWithinQuantity ==
    \A k \in DOMAIN stock :
        /\ 0 <= stock[k].reserved_quantity
        /\ stock[k].reserved_quantity <= stock[k].quantity

\* C2: for every (shop, item) the movement quantities logged for it sum to
\* the on-hand quantity of its stock position (0 without a position), in
\* every committed state.
C2_MovementsReconcile ==
    \A k \in ItemKeys : MovementSum(moves, k[1], k[2], k[3]) = OnHand(stock, k)

\* ------------------------------------------------------------------ sales
\* The sale requests of every caller against the current ledger.
SaleCalls ==
    {<<c[1], data>> : c \in Callers, data \in SaleRequests(OneOrTwo)}

\* A request that passes the checks made before the availability loop: the
\* caller may sell at a shop and the sale number is new.
SaleAdmitted(user, data) ==
    /\ ~SaleForbidden(user, data.shop_id)
    /\ ~SaleNumberExists(DB, data.sale_number)

\* The rejection case, stated on the ledger: some line has no stock
\* position at the sale's shop or asks for more than quantity - reserved.
SomeLineUnavailable(user, data) ==
    \E i \in DOMAIN data.sale_lines :
        LET k == Key(SaleShop(user, data.shop_id), PRODUCT, data.sale_lines[i].product_id)
        IN  \/ k \notin DOMAIN stock
            \/ data.sale_lines[i].quantity
                   > stock[k].quantity - stock[k].reserved_quantity

\* C4: a sale request with a line whose product has no stock position at the
\* sale's shop, or asks for more than quantity - reserved_quantity, is
\* refused and leaves sales, stock and movements as they were; the answer is
\* 409 whenever the request gets as far as the availability loop (the caller
\* may sell at a shop and the sale number is new).
C4_ShortSaleRejected ==
    \A call \in SaleCalls :
        SomeLineUnavailable(call[1], call[2]) =>
            LET out == create_sale(DB, call[1], call[2]) IN
            /\ out.db = DB
            /\ out.code # HTTP_200_OK
            /\ SaleAdmitted(call[1], call[2]) => out.code = HTTP_409_CONFLICT

\* A two-line sale was just rejected with 409 at a shop where its first line
\* alone would have passed.
C4_Witness ==
    /\ last.op = "create_sale"
    /\ last.code = HTTP_409_CONFLICT
    /\ \E call \in SaleCalls :
        /\ SaleAdmitted(call[1], call[2])
        /\ Len(call[2].sale_lines) = 2
        /\ ShortLines(stock, SaleShop(call[1], call[2].shop_id), call[2].sale_lines) = {2}

\* The single-line sale of q units of product p by an admin at a shop.
SingleSale(shop, p, q) ==
    [sale_number |-> Len(sales) + 1, shop_id |-> shop, discount_amount |-> 0,
     sale_lines |-> <<[product_id |-> p, quantity |-> q, unit_price |-> 3]>>]

Admin == [role |-> "admin", shop_id |-> None]

\* C5: at every product position with available quantity
\* a = quantity - reserved_quantity, a single-line sale of a is accepted and
\* a single-line sale of a + 0.001 (one unit of the third decimal place) is
\* answered 409.
C5_AvailableBoundary ==
    \A s \in Shops, p \in Products :
        Key(s, PRODUCT, p) \in DOMAIN stock =>
            LET a == available_quantity(stock[Key(s, PRODUCT, p)]) IN
            /\ create_sale(DB, Admin, SingleSale(s, p, a + 1)).code = HTTP_409_CONFLICT
            /\ create_sale(DB, Admin, SingleSale(s, p, a)).code = HTTP_200_OK

\* A sale that took exactly the available quantity was just accepted at a
\* position that keeps units reserved by a pending transfer.
C5_Witness ==
    /\ last.op = "create_sale"
    /\ last.code = HTTP_200_OK
    /\ LET sale == sales[Len(sales)]
           k == Key(sale.shop_id, PRODUCT, sale.sale_lines[1].product_id)
       IN  /\ Len(sale.sale_lines) = 1
           /\ stock[k].reserved_quantity > 0
           /\ available_quantity(last.before[k]) = sale.sale_lines[1].quantity
           /\ available_quantity(stock[k]) = 0

\* The quantity the lines of a document ask of the position k of a shop.
LineQuantity(shop, lines, k) ==
    SumSeq([i \in DOMAIN lines |->
                IF Key(shop, PRODUCT, lines[i].product_id) = k
                THEN lines[i].quantity ELSE 0])

\* C6: a step in which create_sale answers 200 stores one sale with status
\* completed and final_amount = sum(quantity * unit_price) - discount_amount,
\* lowers the quantity of each position of the sale's shop by the quantities
\* of the lines that name it, leaves every reserved_quantity as it was, and
\* appends one movement per line with quantity -line.quantity, reason sale
\* and a reference to the sale.
C6_AcceptedSaleEffect ==
    [][(last'.op = "create_sale" /\ last'.code = HTTP_200_OK) =>
        LET id == Len(sales')
            sale == sales'[id]
            lines == sale.sale_lines
        IN  /\ id = Len(sales) + 1
            /\ sale.status = "completed"
            /\ sale.final_amount =
                   SumSeq([i \in DOMAIN lines |-> lines[i].quantity * lines[i].unit_price])
                   - sale.discount_amount
            /\ DOMAIN stock' = DOMAIN stock
            /\ \A i \in DOMAIN lines :
                   Key(sale.shop_id, PRODUCT, lines[i].product_id) \in DOMAIN stock
            /\ \A k \in DOMAIN stock :
                /\ stock'[k].quantity =
                       stock[k].quantity - LineQuantity(sale.shop_id, lines, k)
                /\ stock'[k].reserved_quantity = stock[k].reserved_quantity
            /\ Len(moves') = Len(moves) + Len(lines)
            /\ SubSeq(moves', 1, Len(moves)) = moves
            /\ \A i \in DOMAIN lines :
                LET m == moves'[Len(moves) + i] IN
                /\ m.shop_id = sale.shop_id
                /\ m.item_type = PRODUCT
                /\ m.product_id = lines[i].product_id
                /\ m.quantity = -lines[i].quantity
                /\ m.reason = "sale"
                /\ m.reference_id = id
                /\ m.reference_type = "sale"
    ]_vars

\* A two-line sale was just accepted and lowered the quantity of a position
\* of its shop.
C6_Witness ==
    /\ last.op = "create_sale"
    /\ last.code = HTTP_200_OK
    /\ Len(sales[Len(sales)].sale_lines) = 2
    /\ \E k \in DOMAIN stock :
        /\ k[1] = sales[Len(sales)].shop_id
        /\ stock[k].quantity < last.before[k].quantity

\* ------------------------------------------------------------------ transfers
\* The movements appended by a step are those of the lines of a transfer,
\* at a shop, with a sign and a reason.
TransferMovementsAppended(shop, lines, id, sign, reason) ==
    /\ Len(moves') = Len(moves) + Len(lines)
    /\ SubSeq(moves', 1, Len(moves)) = moves
    /\ \A i \in DOMAIN lines :
        LET m == moves'[Len(moves) + i] IN
        /\ m.shop_id = shop
        /\ m.item_type = PRODUCT
        /\ m.product_id = lines[i].product_id
        /\ m.quantity = sign * lines[i].quantity
        /\ m.reason = reason
        /\ m.reference_id = id
        /\ m.reference_type = "transfer"

TransferCreated == last'.op = "create_transfer" /\ last'.code = HTTP_200_OK

ReceivedRightAfterCreate ==
    /\ last.op = "create_transfer" /\ last.code = HTTP_200_OK
    /\ last'.op = "receive_transfer" /\ last'.code = HTTP_200_OK
    /\ transfers[Len(transfers)].status = "pending"
    /\ transfers'[Len(transfers)].status = "received"

\* The effect expected of the receive of a transfer created from source
\* positions that held quantity Q and reserved R before the create
\* (last.before is the stock the create started from).
ReceiveEffect(transfer, id) ==
    LET lines == transfer.transfer_lines
        from == transfer.from_shop_id
        to == transfer.to_shop_id
    IN  /\ \A i \in DOMAIN lines :
            LET src == Key(from, PRODUCT, lines[i].product_id)
                dst == Key(to, PRODUCT, lines[i].product_id)
            IN  /\ stock'[src].quantity =
                       last.before[src].quantity - LineQuantity(from, lines, src)
                /\ stock'[src].reserved_quantity = last.before[src].reserved_quantity
                /\ dst \in DOMAIN stock'
                /\ stock'[dst].quantity = OnHand(stock, dst) + LineQuantity(to, lines, dst)
                /\ dst \notin DOMAIN stock => stock'[dst].reserved_quantity = 0
        /\ TransferMovementsAppended(to, lines, id, 1, "transfer_in")
        /\ transfers'[id].status = "received"

\* C8: when a transfer is received right after its create, each source
\* position holds the quantity it had before the create less the line
\* quantities and the reserved_quantity it had before the create, each
\* destination position (created with reserved_quantity 0 when absent) holds
\* the line quantities more than before the receive, one transfer_in movement
\* of +quantity per line is appended at the destination, and the transfer is
\* received.
C8_ReceiveAfterCreate ==
    [][ReceivedRightAfterCreate =>
        ReceiveEffect(transfers[Len(transfers)], Len(transfers))]_vars

\* The same statement for the transfers between two different shops.
C8_BetweenDistinctShops ==
    [][(/\ ReceivedRightAfterCreate
        /\ transfers[Len(transfers)].from_shop_id # transfers[Len(transfers)].to_shop_id)
        => ReceiveEffect(transfers[Len(transfers)], Len(transfers))]_vars

\* A transfer between two different shops, created from a position with
\* reserved units, was received right after its create.
C8_DistinctShopsWitness ==
    /\ last.op = "receive_transfer"
    /\ last.code = HTTP_200_OK
    /\ \E id \in DOMAIN transfers :
        LET transfer == transfers[id]
            src == Key(transfer.from_shop_id, PRODUCT, transfer.transfer_lines[1].product_id)
        IN  /\ transfer.status = "received"
            /\ transfer.from_shop_id # transfer.to_shop_id
            /\ moves[Len(moves)].reference_id = id
            /\ stock[src].reserved_quantity > 0
            /\ stock[src].reserved_quantity < last.before[src].reserved_quantity

\* The receive requests that name a transfer that is not pending.
NotPendingIds == {id \in DOMAIN transfers : transfers[id].status # "pending"}

\* C9: receive_transfer of a transfer whose status is not pending is answered
\* 400 and leaves stock, movements and transfers as they were.
C9_ReceiveNotPendingRefused ==
    \A id \in NotPendingIds : receive_transfer(DB, id) = Fail(HTTP_400_BAD_REQUEST, DB)

\* A second receive of a received transfer was just refused with 400.
C9_Witness ==
    /\ last.op = "receive_transfer"
    /\ last.code = HTTP_400_BAD_REQUEST
    /\ NotPendingIds # {}
    /\ last.before = stock

\* ------------------------------------------------------------------ production
\* The completion requests that name a run that is not planned.
NotPlannedIds == {id \in DOMAIN runs : runs[id].status # "planned"}

\* C10: complete_production_run of a run whose status is not planned is
\* answered 400 and leaves stock, movements and the run (status, total_cost,
\* actual_quantity) as they were.
C10_CompleteNotPlannedRefused ==
    \A id \in NotPlannedIds :
        complete_production_run(DB, id) = Fail(HTTP_400_BAD_REQUEST, DB)

\* A second completion of a completed run was just refused with 400 while
\* the warehouse still held enough raw material for its consumptions.
C10_Witness ==
    /\ last.op = "complete_production_run"
    /\ last.code = HTTP_400_BAD_REQUEST
    /\ last.before = stock
    /\ \E id \in NotPlannedIds :
        /\ runs[id].status = "completed"
        /\ runs[id].actual_quantity = runs[id].planned_quantity
        /\ ConsumptionValidate(stock, runs[id].production_consumptions) = HTTP_200_OK

\* ------------------------------------------------------------------ concurrent sales
\* Two requests to create_sale, each in the database session get_session
\* gives it. A session reads the committed rows when it executes a select,
\* keeps the StockItem objects it loaded, and writes the values of the
\* objects it changed when it commits.
Sessions == {1, 2}

SaleNumbers == {1, 2}

ConcurrentSaleRequests ==
    {[sale_number |-> n, shop_id |-> c[2], discount_amount |-> d, sale_lines |-> l] :
        n \in SaleNumbers, c \in Callers, d \in Discounts, l \in SaleLines(One)}

NoRequest ==
    [sale_number |-> None, shop_id |-> None, discount_amount |-> 0, sale_lines |-> <<>>]

Idle ==
    [pc |-> "idle", user |-> [role |-> "none", shop_id |-> None], data |-> NoRequest,
     seen |-> EmptyDB.stock, at |-> 0, code |-> 0]

\* The ledger after one return of a product to the warehouse: one position
\* with something to sell, and the return and its movement behind it.
SeedReturn(q) ==
    [return_number |-> 1, sale_id |-> None, product_id |-> 1, quantity |-> q,
     unit_price |-> 3]

InitConc ==
    \E q \in Quantities :
        LET db == create_return(EmptyDB, SeedReturn(q)).db IN
        /\ stock = db.stock
        /\ moves = db.moves
        /\ sales = db.sales
        /\ transfers = db.transfers
        /\ runs = db.runs
        /\ purchases = db.purchases
        /\ returns = db.returns
        /\ last = [op |-> "create_return", code |-> HTTP_200_OK, before |-> EmptyDB.stock]
        /\ sess = [i \in Sessions |-> Idle]

\* A request arrives and gets a session.
Begin(i) ==
    /\ sess[i].pc = "idle"
    /\ \E caller \in Callers, data \in ConcurrentSaleRequests :
        /\ data.shop_id = caller[2]
        /\ sess' = [sess EXCEPT ![i] =
                        [Idle EXCEPT !.pc = "check", !.user = caller[1], !.data = data]]
    /\ UNCHANGED <<stock, moves, sales, transfers, runs, purchases, returns, last>>

\* The session's answer: the request is over and nothing of it is committed.
Refuse(i, code) ==
    /\ sess' = [sess EXCEPT ![i].pc = "done", ![i].code = code]
    /\ last' = [op |-> "create_sale", code |-> code, before |-> stock]
    /\ UNCHANGED <<stock, moves, sales, transfers, runs, purchases, returns>>

\* The role restrictions, the sale number check and the availability loop,
\* on the rows committed when the session reads them.
Check(i) ==
    /\ sess[i].pc = "check"
    /\ LET user == sess[i].user
           data == sess[i].data
       IN  IF SaleForbidden(user, data.shop_id) THEN Refuse(i, HTTP_403_FORBIDDEN)
           ELSE IF SaleNumberExists(DB, data.sale_number)
           THEN Refuse(i, HTTP_400_BAD_REQUEST)
           ELSE IF ShortLines(stock, SaleShop(user, data.shop_id), data.sale_lines) # {}
           THEN Refuse(i, HTTP_409_CONFLICT)
           ELSE /\ sess' = [sess EXCEPT ![i].pc = "deduct", ![i].seen = stock,
                                        ![i].at = Len(moves)]
                /\ UNCHANGED <<stock, moves, sales, transfers, runs, purchases,
                               returns, last>>

\* "Create sale lines and update stock", on the objects the session loaded
\* in the availability loop.
Deduct(i) ==
    /\ sess[i].pc = "deduct"
    /\ sess' = [sess EXCEPT
                ![i].pc = "commit",
                ![i].seen = SaleDeduct(@, SaleShop(sess[i].user, sess[i].data.shop_id),
                                       sess[i].data.sale_lines)]
    /\ UNCHANGED <<stock, moves, sales, transfers, runs, purchases, returns, last>>

\* The positions the lines of a sale name.
SalePositions(shop, lines) ==
    {Key(shop, PRODUCT, lines[n].product_id) : n \in DOMAIN lines}

\* await db.commit(): the sale, its movements and the quantity of the
\* objects the session changed are written; a sale number committed in the
\* meantime violates the unique index and the session is rolled back.
Commit(i) ==
    /\ sess[i].pc = "commit"
    /\ LET user == sess[i].user
           data == sess[i].data
           shop == SaleShop(user, data.shop_id)
       IN  IF SaleNumberExists(DB, data.sale_number) THEN Refuse(i, ServerError)
           ELSE /\ sales' = Append(sales, SaleRow(data, shop))
                /\ moves' = moves \o SaleMovements(shop, data.sale_lines, Len(sales) + 1)
                /\ stock' = [k \in DOMAIN stock |->
                                IF k \in SalePositions(shop, data.sale_lines)
                                THEN [stock[k] EXCEPT !.quantity = sess[i].seen[k].quantity]
                                ELSE stock[k]]
                /\ sess' = [sess EXCEPT ![i].pc = "done", ![i].code = HTTP_200_OK]
                /\ last' = [op |-> "create_sale", code |-> HTTP_200_OK, before |-> stock]
                /\ UNCHANGED <<transfers, runs, purchases, returns>>

NextConc ==
    \/ \E i \in Sessions : Begin(i)
    \/ \E i \in Sessions : Check(i)
    \/ \E i \in Sessions : Deduct(i)
    \/ \E i \in Sessions : Commit(i)

SpecConc == InitConc /\ [][NextConc]_vars

\* Two accepted sales whose availability checks read the same committed
\* state of one position and whose quantities together exceed what was
\* available there.
BothCommitted(i, j) ==
    /\ sess[i].pc = "done" /\ sess[i].code = HTTP_200_OK
    /\ sess[j].pc = "done" /\ sess[j].code = HTTP_200_OK
    /\ sess[i].at = sess[j].at
    /\ LET ki == Key(SaleShop(sess[i].user, sess[i].data.shop_id), PRODUCT,
                     sess[i].data.sale_lines[1].product_id)
           kj == Key(SaleShop(sess[j].user, sess[j].data.shop_id), PRODUCT,
                     sess[j].data.sale_lines[1].product_id)
           qi == sess[i].data.sale_lines[1].quantity
           qj == sess[j].data.sale_lines[1].quantity
       IN  /\ ki = kj
           \* seen holds the quantity after the session's own deduction
           /\ qi + qj > sess[i].seen[ki].quantity + qi - sess[i].seen[ki].reserved_quantity

\* C3: of two concurrent sales at one position whose quantities together
\* exceed the available quantity at most one is committed, and no on-hand
\* quantity is negative.
C3_AtMostOneCommits ==
    /\ \A i, j \in Sessions : i # j => ~BothCommitted(i, j)
    /\ \A k \in DOMAIN stock : stock[k].quantity >= 0

\* ------------------------------------------------------------------ production on a stocked ledger
\* The ledger after a return of a product to the warehouse and a transfer
\* of one unit of it to shop 2, received: the product is stocked at both
\* shops.
SeedTransfer ==
    [transfer_number |-> 1, from_shop_id |-> 1, to_shop_id |-> 2,
     transfer_lines |-> <<[product_id |-> 1, quantity |-> 1, unit_cost |-> 3]>>]

Stocked(q) ==
    receive_transfer(
        create_transfer(create_return(EmptyDB, SeedReturn(q)).db, SeedTransfer).db,
        1).db

InitStocked ==
    \E q \in Quantities :
        LET db == Stocked(q) IN
        /\ stock = db.stock
        /\ moves = db.moves
        /\ sales = db.sales
        /\ transfers = db.transfers
        /\ runs = db.runs
        /\ purchases = db.purchases
        /\ returns = db.returns
        /\ last = [op |-> "receive_transfer", code |-> HTTP_200_OK,
                   before |-> create_transfer(create_return(EmptyDB, SeedReturn(q)).db,
                                              SeedTransfer).db.stock]
        /\ sess = NoSessions

\* A handler's response, while purchases and runs stay within MaxOps.
RespondStocked(op, out) ==
    /\ Len(out.db.purchases) + Len(out.db.runs) <= MaxOps
    /\ Store(op, out)

NextStocked ==
    \/ \E data \in PurchaseRequests(One) :
        RespondStocked("create_purchase", create_purchase(DB, data))
    \/ \E data \in RunRequests(OneOrTwo) :
        RespondStocked("create_production_run", create_production_run(DB, data))
    \/ \E production_run_id \in Ids(runs) :
        RespondStocked("complete_production_run",
                       complete_production_run(DB, production_run_id))

SpecStocked == InitStocked /\ [][NextStocked]_vars

\* The planned runs.
PlannedIds == {id \in DOMAIN runs : runs[id].status = "planned"}

\* Every consumption row of a run is covered by the available quantity of
\* its raw material at the warehouse.
Covered(run) ==
    \A i \in DOMAIN run.production_consumptions :
        LET k == Key(Warehouse, RAW_MATERIAL, run.production_consumptions[i].raw_material_id)
        IN  /\ k \in DOMAIN stock
            /\ stock[k].quantity - stock[k].reserved_quantity
                   >= run.production_consumptions[i].planned_consumption

\* What a run asks of the warehouse position k: its consumptions of the raw
\* material taken off, the planned quantities of its lines of the product
\* added.
RunDelta(run, k) ==
    SumSeq([i \in DOMAIN run.production_lines |->
                IF Key(Warehouse, PRODUCT, run.production_lines[i].product_id) = k
                THEN run.production_lines[i].planned_quantity ELSE 0])
    - SumSeq([i \in DOMAIN run.production_consumptions |->
                IF Key(Warehouse, RAW_MATERIAL,
                       run.production_consumptions[i].raw_material_id) = k
                THEN run.production_consumptions[i].planned_consumption ELSE 0])

\* The ledger db is the current one with run id completed.
CompletionEffect(db, id) ==
    LET run == runs[id]
        cons == run.production_consumptions
        lines == run.production_lines
        done == db.runs[id]
    IN  /\ \A i \in DOMAIN lines :
            Key(Warehouse, PRODUCT, lines[i].product_id) \in DOMAIN db.stock
        /\ \A k \in DOMAIN db.stock :
            /\ db.stock[k].quantity = OnHand(stock, k) + RunDelta(run, k)
            /\ db.stock[k].reserved_quantity = Reserved(stock, k)
        /\ Len(db.moves) = Len(moves) + Len(cons) + Len(lines)
        /\ SubSeq(db.moves, 1, Len(moves)) = moves
        /\ \A i \in DOMAIN cons :
            LET m == db.moves[Len(moves) + i] IN
            /\ m.shop_id = Warehouse
            /\ m.item_type = RAW_MATERIAL
            /\ m.raw_material_id = cons[i].raw_material_id
            /\ m.quantity = -cons[i].planned_consumption
            /\ m.reason = "production_consume"
            /\ m.reference_id = id
        /\ \A i \in DOMAIN lines :
            LET m == db.moves[Len(moves) + Len(cons) + i] IN
            /\ m.shop_id = Warehouse
            /\ m.item_type = PRODUCT
            /\ m.product_id = lines[i].product_id
            /\ m.quantity = lines[i].planned_quantity
            /\ m.reason = "production_add"
            /\ m.reference_id = id
        /\ done.total_cost =
               SumSeq([i \in DOMAIN cons |->
                           raw_materials[cons[i].raw_material_id].unit_price
                               * cons[i].planned_consumption])
               + run.labor_cost + run.overhead_cost
        /\ done.actual_quantity = run.planned_quantity
        /\ done.status = "completed"

\* C11: completing a planned run whose consumptions are all covered at the
\* warehouse is answered 200 and takes each consumption off the raw
\* material's warehouse position with one production_consume movement, adds
\* each line's planned quantity to the product's warehouse position (created
\* when absent) with one production_add movement, and stores total_cost =
\* sum(unit_price * planned_consumption) + labor_cost + overhead_cost,
\* actual_quantity = planned_quantity and status completed.
C11_CoveredRunCompletes ==
    \A id \in PlannedIds :
        Covered(runs[id]) =>
            LET out == complete_production_run(DB, id) IN
            /\ out.code = HTTP_200_OK
            /\ CompletionEffect(out.db, id)

\* The same statement for the runs none of whose products is stocked at a
\* shop other than the warehouse.
C11_ProductAtWarehouseOnly ==
    \A id \in PlannedIds :
        (/\ Covered(runs[id])
         /\ \A i \in DOMAIN runs[id].production_lines :
                ShopsHolding(stock, PRODUCT, runs[id].production_lines[i].product_id)
                    \subseteq {Warehouse})
        => LET out == complete_production_run(DB, id) IN
           /\ out.code = HTTP_200_OK
           /\ CompletionEffect(out.db, id)

\* The first consumption row of a run that is not covered.
FirstUncovered(run) ==
    CHOOSE i \in DOMAIN run.production_consumptions :
        /\ ~Covered([run EXCEPT !.production_consumptions = <<@[i]>>])
        /\ \A j \in 1 .. i - 1 :
               Covered([run EXCEPT !.production_consumptions = <<@[j]>>])

PurchasedQuantity(lines, m) ==
    SumSeq([i \in DOMAIN lines |->
              IF lines[i].raw_material_id = m THEN lines[i].quantity ELSE 0])

PurchaseEffect(db, data) ==
    LET out == create_purchase(db, data)
        id == Len(db.purchases) + 1
        lines == data.purchase_lines
    IN  /\ out.code = HTTP_200_OK
        /\ Len(out.db.purchases) = id
        /\ out.db.purchases[id].status = "received"
        /\ out.db.purchases[id].total_amount =
               SumSeq([i \in DOMAIN lines |-> lines[i].quantity * lines[i].unit_price])
        /\ \A m \in RawMaterials :
             LET k == Key(Warehouse, RAW_MATERIAL, m) IN
             /\ OnHand(out.db.stock, k) = OnHand(db.stock, k) + PurchasedQuantity(lines, m)
             /\ Reserved(out.db.stock, k) = Reserved(db.stock, k)
             /\ PurchasedQuantity(lines, m) > 0 => k \in DOMAIN out.db.stock
        /\ \A k \in ItemKeys :
             k[1] # Warehouse \/ k[2] # RAW_MATERIAL =>
                /\ (k \in DOMAIN out.db.stock) = (k \in DOMAIN db.stock)
                /\ OnHand(out.db.stock, k) = OnHand(db.stock, k)
                /\ Reserved(out.db.stock, k) = Reserved(db.stock, k)
        /\ Len(out.db.moves) = Len(db.moves) + Len(lines)
        /\ SubSeq(out.db.moves, 1, Len(db.moves)) = db.moves
        /\ \A i \in DOMAIN lines :
             out.db.moves[Len(db.moves) + i] =
                 StockMovement(Warehouse, RAW_MATERIAL, None, lines[i].raw_material_id,
                               lines[i].quantity, "purchase", id, "purchase")
        /\ \A j \in DOMAIN db.moves :
             ~(db.moves[j].reference_type = "purchase" /\ db.moves[j].reference_id = id)

\* C13: a purchase is stored RECEIVED with total_amount = sum(quantity x
\* unit_price); every line adds its quantity to the raw material's warehouse
\* position (created with reserved 0 when there was none) and appends exactly
\* one PURCHASE movement of +quantity that references the purchase.
C13_PurchaseReceived ==
    \A data \in PurchaseRequests(OneOrTwo) : PurchaseEffect(DB, data)

\* A purchase was just stored on a ledger that already held a position of the
\* raw material, after an earlier purchase that created the position.
C13_Witness ==
    /\ last.op = "create_purchase"
    /\ last.code = HTTP_200_OK
    /\ Len(purchases) = 2
    /\ Key(Warehouse, RAW_MATERIAL, 1) \in DOMAIN last.before
    /\ stock[Key(Warehouse, RAW_MATERIAL, 1)].quantity
         > last.before[Key(Warehouse, RAW_MATERIAL, 1)].quantity

\* ------------------------------------------------------------------ two stocked shops
\* Sales and returns on the ledger that has the product at both shops.
RespondShops(op, out) ==
    /\ Operations(out.db) <= Operations(Stocked(1)) + MaxOps
    /\ Store(op, out)

NextShops ==
    \/ \E caller \in Callers, data \in SaleRequests(One) :
        /\ data.shop_id = caller[2]
        /\ RespondShops("create_sale", create_sale(DB, caller[1], data))
    \/ \E data \in ReturnRequests :
        RespondShops("create_return", create_return(DB, data))

SpecShops == InitStocked /\ [][NextShops]_vars

\* The shop an accepted return is credited to.
CreditedShop(db, data) ==
    IF \E id \in DOMAIN db.sales : id = data.sale_id
    THEN db.sales[data.sale_id].shop_id
    ELSE 1

ReturnEffect(db, data) ==
    LET out == create_return(db, data)
        k == Key(CreditedShop(db, data), PRODUCT, data.product_id)
    IN  out.code = HTTP_200_OK =>
            /\ k \in DOMAIN out.db.stock
            /\ out.db.stock[k].quantity = OnHand(db.stock, k) + data.quantity
            /\ out.db.stock[k].reserved_quantity = Reserved(db.stock, k)
            /\ \A o \in ItemKeys \ {k} :
                 /\ (o \in DOMAIN out.db.stock) = (o \in DOMAIN db.stock)
                 /\ o \in DOMAIN db.stock => out.db.stock[o] = db.stock[o]
            /\ out.db.moves =
                 Append(db.moves,
                        StockMovement(k[1], PRODUCT, data.product_id, None, data.quantity,
                                      "return", Len(out.db.returns), "return"))
            /\ Len(out.db.returns) = Len(db.returns) + 1

\* C14: an accepted return of q credits exactly one position, the product's
\* at the shop of the sale that sale_id names and at shop 1 when it names
\* none: quantity + q (created with q and reserved 0 when absent), reserved
\* unchanged, one RETURN movement of +q referencing the return at that shop.
C14_ReturnCreditsOnePosition ==
    \A data \in ReturnRequests : ReturnEffect(DB, data)

\* A return against a sale made at shop 2 was just accepted and credited
\* the product's position at shop 2.
C14_Witness ==
    /\ last.op = "create_return"
    /\ last.code = HTTP_200_OK
    /\ returns[Len(returns)].sale_id \in DOMAIN sales
    /\ sales[returns[Len(returns)].sale_id].shop_id = 2
    /\ stock[Key(2, PRODUCT, 1)].quantity > last.before[Key(2, PRODUCT, 1)].quantity

\* ------------------------------------------------------------------ numbered documents
\* The four handlers that take a document number.
NextDocuments ==
    \/ CreateReturn
    \/ CreateSale(One)
    \/ CreateTransfer(One)
    \/ CreateProductionRun(One)

SpecDocuments == Init /\ [][NextDocuments]_vars

\* No two rows of a table carry the same number.
UniqueNumbers(table, field) ==
    \A i, j \in DOMAIN table : table[i][field] = table[j][field] => i = j

\* C15: a sale (from a caller the role check lets through), transfer,
\* production run or return whose number is that of a stored document of
\* the same type is answered 400 and changes nothing; no two stored
\* documents of one type share a number.
C15_DuplicateNumberRefused ==
    /\ \A i \in DOMAIN sales, c \in Callers, data \in SaleRequests(One) :
         LET out == create_sale(DB, c[1], [data EXCEPT !.sale_number = sales[i].sale_number])
         IN  /\ out.db = DB
             /\ ~SaleForbidden(c[1], data.shop_id) => out.code = HTTP_400_BAD_REQUEST
    /\ \A i \in DOMAIN transfers, b \in TransferBodies(One) :
         create_transfer(DB, [transfer_number |-> transfers[i].transfer_number] @@ b)
             = Fail(HTTP_400_BAD_REQUEST, DB)
    /\ \A i \in DOMAIN runs, data \in RunRequests(One) :
         create_production_run(DB, [data EXCEPT !.run_number = runs[i].run_number])
             = Fail(HTTP_400_BAD_REQUEST, DB)
    /\ \A i \in DOMAIN returns, data \in ReturnRequests :
         create_return(DB, [data EXCEPT !.return_number = returns[i].return_number])
             = Fail(HTTP_400_BAD_REQUEST, DB)
    /\ UniqueNumbers(sales, "sale_number")
    /\ UniqueNumbers(transfers, "transfer_number")
    /\ UniqueNumbers(runs, "run_number")
    /\ UniqueNumbers(returns, "return_number")

\* A sale carrying the number of a stored sale was just answered 400 on a
\* ledger whose stock would have covered it.
C15_Witness ==
    /\ last.op = "create_sale"
    /\ last.code = HTTP_400_BAD_REQUEST
    /\ Len(sales) = 1
    /\ \E k \in DOMAIN stock : k[2] = PRODUCT /\ available_quantity(stock[k]) >= 1

\* ------------------------------------------------------------------ document workflows
\* Every document workflow, with single-line documents and no manual
\* adjustment: the stock is then the sum of what the documents did.
NextWorkflows ==
    \/ CreatePurchase(One)
    \/ CreateReturn
    \/ CreateSale(One)
    \/ CreateTransfer(One)
    \/ ReceiveTransfer
    \/ CreateProductionRun(One)
    \/ CompleteProductionRun

SpecWorkflows == Init /\ [][NextWorkflows]_vars

\* The movements of one reason that reference document id.
MovementsOf(reason, id) ==
    SelectSeq(moves, LAMBDA m : m.reason = reason /\ m.reference_id = id)

\* The total of field over the lines that name item id in idfield.
LinesSum(lines, idfield, id, field) ==
    SumSeq([i \in DOMAIN lines |-> IF lines[i][idfield] = id THEN lines[i][field] ELSE 0])

\* What the movements of one reason put on position k.
LoggedAt(reason, k) ==
    SumSeq([i \in DOMAIN moves |->
              IF /\ moves[i].reason = reason
                 /\ moves[i].shop_id = k[1]
                 /\ moves[i].item_type = k[2]
                 /\ (IF k[2] = PRODUCT THEN moves[i].product_id
                     ELSE moves[i].raw_material_id) = k[3]
              THEN moves[i].quantity ELSE 0])

\* What the stored sales took off position k.
SoldAt(k) ==
    SumSeq([i \in DOMAIN sales |->
              IF sales[i].shop_id = k[1] /\ k[2] = PRODUCT
              THEN LinesSum(sales[i].sale_lines, "product_id", k[3], "quantity") ELSE 0])

\* What the transfers of one status move from (to) the shop of position k.
TransferredAt(status, end, k) ==
    SumSeq([i \in DOMAIN transfers |->
              IF transfers[i].status = status /\ transfers[i][end] = k[1] /\ k[2] = PRODUCT
              THEN LinesSum(transfers[i].transfer_lines, "product_id", k[3], "quantity")
              ELSE 0])

\* What the completed runs consumed of (added to) warehouse position k.
RunsAt(k) ==
    SumSeq([i \in DOMAIN runs |->
              IF runs[i].status # "completed" \/ k[1] # Warehouse THEN 0
              ELSE IF k[2] = PRODUCT
              THEN LinesSum(runs[i].production_lines, "product_id", k[3], "planned_quantity")
              ELSE -LinesSum(runs[i].production_consumptions, "raw_material_id", k[3],
                             "planned_consumption")])

C16_CompletedRunWitness ==
    \E id \in DOMAIN runs :
        /\ runs[id].status = "completed"
        /\ runs[id].production_consumptions # <<>>

\* ------------------------------------------------------------------ manual adjustments
\* Manual adjustments on the positions that purchases and returns create.
NextAdjust ==
    \/ CreatePurchase(One)
    \/ CreateReturn
    \/ AdjustStock

SpecAdjust == Init /\ [][NextAdjust]_vars

\* The requests that name their item: product_id for a product,
\* raw_material_id for a raw material.
NamedAdjustRequests ==
    {r \in AdjustRequests :
        IF r.item_type = PRODUCT THEN r.product_id # None /\ r.raw_material_id = None
        ELSE r.raw_material_id # None /\ r.product_id = None}

\* The position a request that names its item is about.
AdjustKey(r) ==
    Key(r.shop_id, r.item_type,
        IF r.item_type = PRODUCT THEN r.product_id ELSE r.raw_material_id)

\* C17: an adjustment that would take the on-hand quantity of its position
\* below zero fails; quantity, reserved quantity and movements stay as they
\* were.
C17_NegativeRefused ==
    \A r \in NamedAdjustRequests :
        /\ AdjustKey(r) \in DOMAIN stock
        /\ stock[AdjustKey(r)].quantity + r.quantity < 0
        => LET out == adjust_stock(DB, r, AdjustKey(r)) IN
           /\ out.code # HTTP_200_OK
           /\ out.db = DB

\* C18: an adjustment with a positive delta for a shop and item without a
\* position creates the position with that quantity and reserved 0 and
\* writes one movement.
C18_MissingCreated ==
    \A r \in NamedAdjustRequests :
        /\ AdjustKey(r) \notin DOMAIN stock
        /\ r.quantity > 0
        /\ r.reason \in MovementReason
        => LET out == adjust_stock(DB, r, <<>>) IN
           /\ out.code = HTTP_200_OK
           /\ AdjustKey(r) \in DOMAIN out.db.stock
           /\ out.db.stock[AdjustKey(r)] = StockItem(r.quantity)
           /\ Len(out.db.moves) = Len(moves) + 1

\* The effect of an accepted adjustment on position k.
AdjustEffect(db, r, k) ==
    LET out == adjust_stock(db, r, k) IN
    out.code = HTTP_200_OK =>
        /\ DOMAIN out.db.stock = DOMAIN db.stock
        /\ out.db.stock[k].quantity = db.stock[k].quantity + r.quantity
        /\ out.db.stock[k].reserved_quantity = db.stock[k].reserved_quantity
        /\ \A o \in DOMAIN db.stock \ {k} : out.db.stock[o] = db.stock[o]
        /\ Len(out.db.moves) = Len(db.moves) + 1
        /\ SubSeq(out.db.moves, 1, Len(db.moves)) = db.moves
        /\ LET m == out.db.moves[Len(out.db.moves)] IN
           /\ m.shop_id = k[1]
           /\ m.item_type = k[2]
           /\ (IF k[2] = PRODUCT THEN m.product_id ELSE m.raw_material_id) = k[3]
           /\ m.quantity = r.quantity
           /\ m.reason = r.reason

\* C19: an accepted adjustment of d on an existing position sets its
\* quantity to the previous quantity + d, leaves its reserved quantity and
\* every other position as they were, and appends exactly one movement for
\* the same shop and item with quantity d and the reason of the request.
C19_AdjustEffect ==
    \A r \in AdjustRequests :
        \A k \in AdjustMatches(stock, r) : AdjustEffect(DB, r, k)

\* The same, for the requests that name their item.
C19_NamedAdjustEffect ==
    \A r \in NamedAdjustRequests :
        \A k \in AdjustMatches(stock, r) : k = AdjustKey(r) /\ AdjustEffect(DB, r, k)

\* An adjustment that names its item was just accepted on a position with a
\* reserved quantity of zero or more.
C19_NamedWitness ==
    /\ last.op = "adjust_stock"
    /\ last.code = HTTP_200_OK
    /\ moves[Len(moves)].product_id # None \/ moves[Len(moves)].raw_material_id # None

\* Lists of up to MaxDeltas deltas.
MaxDeltas == 3

\* The adjustment of position k by d.
Adjustment(k, d) ==
    [shop_id |-> k[1], item_type |-> k[2],
     product_id |-> IF k[2] = PRODUCT THEN k[3] ELSE None,
     raw_material_id |-> IF k[2] = RAW_MATERIAL THEN k[3] ELSE None,
     quantity |-> d, reason |-> "adjustment"]

\* Returns, and adjustments of the positions they create, each naming its
\* item.
NextOrders ==
    \/ CreateReturn
    \/ \E k \in DOMAIN stock, d \in Deltas :
        Respond("adjust_stock", adjust_stock(DB, Adjustment(k, d), k))

SpecOrders == Init /\ [][NextOrders]_vars

\* The deltas applied to position k one request after another, up to the
\* first that is refused.
RECURSIVE AdjustEach(_, _, _)
AdjustEach(db, k, deltas) ==
    IF deltas = <<>> THEN Ok(db)
    ELSE LET out == adjust_stock(db, Adjustment(k, Head(deltas)), k) IN
         IF out.code # HTTP_200_OK THEN out
         ELSE AdjustEach(out.db, k, Tail(deltas))

\* The orders a list can be applied in.
Orders(deltas) ==
    {[i \in DOMAIN deltas |-> deltas[p[i]]] :
        p \in {f \in [DOMAIN deltas -> DOMAIN deltas] :
                 \A i, j \in DOMAIN deltas : f[i] = f[j] => i = j}}

\* C20: the deltas of a list, applied to one existing position in any
\* order, are accepted or refused alike and leave the same on-hand quantity,
\* the initial quantity plus the sum of the deltas.
C20_OrderIndependent ==
    \A k \in DOMAIN stock :
        \A deltas \in Lines(Deltas, 1 .. MaxDeltas) :
            \A order \in Orders(deltas) :
                LET out == AdjustEach(DB, k, order) IN
                /\ out.code = AdjustEach(DB, k, deltas).code
                /\ out.code = HTTP_200_OK =>
                     out.db.stock[k].quantity = stock[k].quantity + SumSeq(deltas)

\* Two adjustments of different deltas have been applied to one position,
\* the deduction first.
C20_Witness ==
    /\ last.op = "adjust_stock"
    /\ last.code = HTTP_200_OK
    /\ Len(moves) >= 3
    /\ moves[Len(moves) - 1].reference_type = "none"
    /\ moves[Len(moves) - 1].quantity < 0
    /\ moves[Len(moves)].quantity > 0
    /\ moves[Len(moves)].product_id = moves[Len(moves) - 1].product_id
    /\ moves[Len(moves)].shop_id = moves[Len(moves) - 1].shop_id
    /\ moves[Len(moves)].item_type = moves[Len(moves) - 1].item_type

\* ------------------------------------------------------------------ concurrent updates of one position
\* Two sessions at the warehouse position of raw material 1, each running
\* adjust_stock or create_purchase. A session reads the row, computes the
\* new quantity on the object it loaded and writes it at its commit. A
\* session that has flushed the INSERT of its purchase holds the database's
\* write lock until it commits (SQLite allows one writer; a server database
\* allows the interleavings below and more).
RaceKey == Key(Warehouse, RAW_MATERIAL, 1)

RaceRequests ==
    {[op |-> "adjust_stock", quantity |-> d, reason |-> r] :
        d \in Deltas, r \in {"adjustment", "stocktake"}}
    \cup {[op |-> "create_purchase", quantity |-> q, reason |-> "purchase"] :
            q \in Quantities}

RaceIdle ==
    [pc |-> "idle", data |-> [op |-> "none", quantity |-> 0, reason |-> "none"],
     seen |-> 0, code |-> 0]

\* The ledger after one purchase of the raw material.
SeedPurchase(q) ==
    [purchase_lines |-> <<[raw_material_id |-> 1, quantity |-> q, unit_price |-> 3]>>]

InitRace ==
    \E q \in Quantities :
        LET db == create_purchase(EmptyDB, SeedPurchase(q)).db IN
        /\ stock = db.stock
        /\ moves = db.moves
        /\ sales = db.sales
        /\ transfers = db.transfers
        /\ runs = db.runs
        /\ purchases = db.purchases
        /\ returns = db.returns
        /\ last = [op |-> "create_purchase", code |-> HTTP_200_OK, before |-> EmptyDB.stock]
        /\ sess = [i \in Sessions |-> RaceIdle]

\* The session holds the write lock: its purchase row is flushed and not
\* yet committed.
Writing(i) ==
    sess[i].data.op = "create_purchase" /\ sess[i].pc \in {"load", "commit"}

\* A request arrives and gets a session.
Arrive(i) ==
    /\ sess[i].pc = "idle"
    /\ \E data \in RaceRequests :
        sess' = [sess EXCEPT ![i] = [RaceIdle EXCEPT !.pc = "begin", !.data = data]]
    /\ UNCHANGED <<stock, moves, sales, transfers, runs, purchases, returns, last>>

\* create_purchase: db.add(db_purchase); await db.flush()
InsertPurchase(i) ==
    /\ sess[i].pc = "begin"
    /\ sess[i].data.op = "create_purchase"
    /\ \A j \in Sessions \ {i} : ~Writing(j)
    /\ sess' = [sess EXCEPT ![i].pc = "load"]
    /\ UNCHANGED <<stock, moves, sales, transfers, runs, purchases, returns, last>>

\* The select of the stock item and the += on the loaded object; an
\* adjustment whose reason is no MovementReason ends here with nothing
\* committed.
Load(i) ==
    /\ \/ sess[i].pc = "begin" /\ sess[i].data.op = "adjust_stock"
       \/ sess[i].pc = "load"
    /\ IF sess[i].data.reason \notin MovementReason
       THEN /\ sess' = [sess EXCEPT ![i].pc = "done", ![i].code = ServerError]
            /\ last' = [op |-> sess[i].data.op, code |-> ServerError, before |-> stock]
       ELSE /\ sess' = [sess EXCEPT
                        ![i].pc = "commit",
                        ![i].seen = AdjustQuantity(stock[RaceKey],
                                                   sess[i].data.quantity).quantity]
            /\ UNCHANGED last
    /\ UNCHANGED <<stock, moves, sales, transfers, runs, purchases, returns>>

\* await db.commit(): UPDATE stock_items SET quantity = <the value computed
\* in the session>, and the INSERT of the movement.
CommitUpdate(i) ==
    /\ sess[i].pc = "commit"
    /\ \A j \in Sessions \ {i} : ~Writing(j)
    /\ stock' = [stock EXCEPT ![RaceKey].quantity = sess[i].seen]
    /\ IF sess[i].data.op = "create_purchase"
       THEN /\ purchases' = Append(purchases,
                                   [total_amount |->
                                        PurchaseTotal(SeedPurchase(sess[i].data.quantity)
                                                          .purchase_lines),
                                    status |-> "received",
                                    purchase_lines |->
                                        SeedPurchase(sess[i].data.quantity).purchase_lines])
            /\ moves' = moves \o PurchaseMovements(
                                     SeedPurchase(sess[i].data.quantity).purchase_lines,
                                     Len(purchases) + 1)
       ELSE /\ purchases' = purchases
            /\ moves' = Append(moves,
                               StockMovement(Warehouse, RAW_MATERIAL, None, 1,
                                             sess[i].data.quantity, sess[i].data.reason,
                                             None, "none"))
    /\ sess' = [sess EXCEPT ![i].pc = "done", ![i].code = HTTP_200_OK]
    /\ last' = [op |-> sess[i].data.op, code |-> HTTP_200_OK, before |-> stock]
    /\ UNCHANGED <<sales, transfers, runs, returns>>

NextRace ==
    \/ \E i \in Sessions : Arrive(i)
    \/ \E i \in Sessions : InsertPurchase(i)
    \/ \E i \in Sessions : Load(i)
    \/ \E i \in Sessions : CommitUpdate(i)

SpecRace == InitRace /\ [][NextRace]_vars

\* C21: whatever the interleaving of two requests on one position, the
\* committed on-hand quantity is the initial quantity plus the delta of
\* every committed request: no update is lost.
C21_NoLostUpdate ==
    stock[RaceKey].quantity = MovementSum(moves, Warehouse, RAW_MATERIAL, 1)

\* The same for two purchases, which the write lock taken at the flush of
\* the purchase row keeps apart.
C21_PurchasesSerialized ==
    (\A i \in Sessions : sess[i].data.op \in {"none", "create_purchase"})
        => stock[RaceKey].quantity = MovementSum(moves, Warehouse, RAW_MATERIAL, 1)

\* ------------------------------------------------------------------ refused transfers
\* Transfer requests of one or two lines under a number no transfer has.
FreshTransfers ==
    {[transfer_number |-> Len(transfers) + 1] @@ b : b \in TransferBodies(OneOrTwo)}

\* Line i asks for more than is available at the source shop; a missing
\* position has nothing available.
LineUncovered(data, i) ==
    LET k == Key(data.from_shop_id, PRODUCT, data.transfer_lines[i].product_id) IN
    OnHand(stock, k) - Reserved(stock, k) < data.transfer_lines[i].quantity

\* The first line of a request that is not covered.
FirstUncoveredLine(data) ==
    CHOOSE i \in DOMAIN data.transfer_lines :
        /\ LineUncovered(data, i)
        /\ \A j \in 1 .. i - 1 : ~LineUncovered(data, j)

\* C22 as stated: a transfer with a line that asks for more than the
\* source shop has available (nothing, when it has no position) is answered
\* 409 and creates and changes nothing.
C22_UncoveredIsConflict ==
    \A data \in FreshTransfers :
        (\E i \in DOMAIN data.transfer_lines : LineUncovered(data, i))
            => create_transfer(DB, data) = Fail(HTTP_409_CONFLICT, DB)

\* C22: a transfer with a line that asks for more than the source shop has
\* available creates and changes nothing; the answer is 409 when the first
\* such line has a position with too little available and 400 when the
\* source shop has no position of its product.
C22_UncoveredRefused ==
    \A data \in FreshTransfers :
        (\E i \in DOMAIN data.transfer_lines : LineUncovered(data, i))
            => LET line == data.transfer_lines[FirstUncoveredLine(data)]
                   out == create_transfer(DB, data)
               IN  /\ out.db = DB
                   /\ out.code =
                        IF Key(data.from_shop_id, PRODUCT, line.product_id) \in DOMAIN stock
                        THEN HTTP_409_CONFLICT ELSE HTTP_400_BAD_REQUEST

\* A transfer was just answered 409 at a source position whose on-hand
\* quantity is partly reserved by a pending transfer.
C22_Witness ==
    /\ last.op = "create_transfer"
    /\ last.code = HTTP_409_CONFLICT
    /\ last.before = stock
    /\ \E k \in DOMAIN stock :
        /\ stock[k].reserved_quantity > 0
        /\ stock[k].quantity > stock[k].reserved_quantity

\* ------------------------------------------------------------------ concurrent receipts
\* Two sessions running receive_transfer on the ledger that holds one
\* pending transfer of one unit from shop 1 to shop 2. A session reads the
\* transfer, then the source row, then the destination row, and commits.
\* The select of the destination row flushes the session's UPDATE of the
\* source row, which the database lets one transaction at a time hold until
\* its commit.
ReceiveIdle ==
    [pc |-> "idle", id |-> None, src |-> StockItem(0), dst |-> 0, code |-> 0]

InitReceive ==
    \E q \in Quantities :
        LET db == create_transfer(create_return(EmptyDB, SeedReturn(q)).db,
                                  SeedTransfer).db
        IN  /\ stock = db.stock
            /\ moves = db.moves
            /\ sales = db.sales
            /\ transfers = db.transfers
            /\ runs = db.runs
            /\ purchases = db.purchases
            /\ returns = db.returns
            /\ last = [op |-> "create_transfer", code |-> HTTP_200_OK,
                       before |-> create_return(EmptyDB, SeedReturn(q)).db.stock]
            /\ sess = [i \in Sessions |-> ReceiveIdle]

\* The session's answer when it raises: nothing of it is committed.
ReceiveRefuse(i, code) ==
    /\ sess' = [sess EXCEPT ![i].pc = "done", ![i].code = code]
    /\ last' = [op |-> "receive_transfer", code |-> code, before |-> stock]
    /\ UNCHANGED <<stock, moves, sales, transfers, runs, purchases, returns>>

\* A request arrives and gets a session.
ReceiveArrive(i) ==
    /\ sess[i].pc = "idle"
    /\ \E transfer_id \in Ids(transfers) :
        sess' = [sess EXCEPT ![i] = [ReceiveIdle EXCEPT !.pc = "transfer",
                                                        !.id = transfer_id]]
    /\ UNCHANGED <<stock, moves, sales, transfers, runs, purchases, returns, last>>

\* "Get transfer" and the status check, on the committed row.
ReadTransfer(i) ==
    /\ sess[i].pc = "transfer"
    /\ IF sess[i].id \notin DOMAIN transfers THEN ReceiveRefuse(i, HTTP_404_NOT_FOUND)
       ELSE IF TransferNotPending(transfers[sess[i].id])
       THEN ReceiveRefuse(i, HTTP_400_BAD_REQUEST)
       ELSE /\ sess' = [sess EXCEPT ![i].pc = "source"]
            /\ UNCHANGED <<stock, moves, sales, transfers, runs, purchases, returns, last>>

\* The line of the seeded transfer.
ReceivedLine(id) == transfers[id].transfer_lines[1]

\* "Deduct reserved stock from source shop", on the row as the session
\* loads it.
ReadSource(i) ==
    /\ sess[i].pc = "source"
    /\ LET transfer == transfers[sess[i].id]
           line == ReceivedLine(sess[i].id)
           row == stock[Key(transfer.from_shop_id, PRODUCT, line.product_id)]
       IN  sess' = [sess EXCEPT
                    ![i].pc = "dest",
                    ![i].src = [quantity |-> row.quantity - line.quantity,
                                reserved_quantity |-> row.reserved_quantity - line.quantity]]
    /\ UNCHANGED <<stock, moves, sales, transfers, runs, purchases, returns, last>>

\* "Add stock to destination shop": the select flushes the UPDATE of the
\* source row and waits while another session holds it; the quantity the
\* destination row gets is computed from the committed row, or is the line
\* quantity of a new row.
ReadDest(i) ==
    /\ sess[i].pc = "dest"
    /\ \A j \in Sessions \ {i} : sess[j].pc # "commit"
    /\ LET transfer == transfers[sess[i].id]
           line == ReceivedLine(sess[i].id)
       IN  sess' = [sess EXCEPT
                    ![i].pc = "commit",
                    ![i].dst = OnHand(stock, Key(transfer.to_shop_id, PRODUCT,
                                                 line.product_id)) + line.quantity]
    /\ UNCHANGED <<stock, moves, sales, transfers, runs, purchases, returns, last>>

\* transfer.status = RECEIVED; await db.commit()
CommitReceive(i) ==
    /\ sess[i].pc = "commit"
    /\ LET transfer == transfers[sess[i].id]
           line == ReceivedLine(sess[i].id)
           from == Key(transfer.from_shop_id, PRODUCT, line.product_id)
           to == Key(transfer.to_shop_id, PRODUCT, line.product_id)
       IN  /\ stock' = (to :> [quantity |-> sess[i].dst,
                               reserved_quantity |-> Reserved(stock, to)])
                       @@ [stock EXCEPT ![from] = sess[i].src]
           /\ moves' = moves \o TransferInMovements(transfer.to_shop_id,
                                                    transfer.transfer_lines, sess[i].id)
           /\ transfers' = [transfers EXCEPT ![sess[i].id].status = "received"]
    /\ sess' = [sess EXCEPT ![i].pc = "done", ![i].code = HTTP_200_OK]
    /\ last' = [op |-> "receive_transfer", code |-> HTTP_200_OK, before |-> stock]
    /\ UNCHANGED <<sales, runs, purchases, returns>>

NextReceive ==
    \/ \E i \in Sessions : ReceiveArrive(i)
    \/ \E i \in Sessions : ReadTransfer(i)
    \/ \E i \in Sessions : ReadSource(i)
    \/ \E i \in Sessions : ReadDest(i)
    \/ \E i \in Sessions : CommitReceive(i)

SpecReceive == InitReceive /\ [][NextReceive]_vars

\* C23: whatever the interleaving of two receive requests for one pending
\* transfer, its lines are applied once: one TRANSFER_IN movement per line,
\* the source positions lowered and the destination positions raised by the
\* line quantities once.
C23_AppliedOnce ==
    /\ \A id \in DOMAIN transfers :
         Len(MovementsOf("transfer_in", id)) <= Len(transfers[id].transfer_lines)
    /\ \A k \in ItemKeys :
         OnHand(stock, k)
            = LoggedAt("return", k)
              - TransferredAt("received", "from_shop_id", k)
              + TransferredAt("received", "to_shop_id", k)

\* ------------------------------------------------------------------ warehouse operations
\* The ledger without the positions of the shops other than the warehouse.
WarehouseOnly(db) ==
    [db EXCEPT !.stock = [k \in {o \in DOMAIN db.stock : o[1] = Warehouse} |-> db.stock[k]]]

\* An outcome changes no position outside the warehouse and is, in its
\* answer and in the warehouse positions it leaves, the outcome the same
\* request has on the ledger without the other shops' positions.
SameAsAtWarehouse(out, ref) ==
    /\ out.code = ref.code
    /\ \A k \in DOMAIN stock : k[1] # Warehouse =>
           k \in DOMAIN out.db.stock /\ out.db.stock[k] = stock[k]
    /\ \A k \in ItemKeys : k[1] = Warehouse =>
           /\ OnHand(out.db.stock, k) = OnHand(ref.db.stock, k)
           /\ Reserved(out.db.stock, k) = Reserved(ref.db.stock, k)

\* C24: a purchase and a production completion read and change warehouse
\* positions only: no position of another shop changes, and the outcome is
\* the one the request would have without the other shops' positions.
C24_WarehousePositionsOnly ==
    /\ \A data \in PurchaseRequests(OneOrTwo) :
         SameAsAtWarehouse(create_purchase(DB, data),
                           create_purchase(WarehouseOnly(DB), data))
    /\ \A id \in PlannedIds :
         SameAsAtWarehouse(complete_production_run(DB, id),
                           complete_production_run(WarehouseOnly(DB), id))

\* The purchase half, which holds: no raw material has a position outside
\* the warehouse.
C24_PurchaseAtWarehouse ==
    \A data \in PurchaseRequests(OneOrTwo) :
        SameAsAtWarehouse(create_purchase(DB, data),
                          create_purchase(WarehouseOnly(DB), data))

\* ------------------------------------------------------------------ failure classes
\* A transfer request that is short at an existing source position.
ShortTransfers ==
    {data \in FreshTransfers :
        /\ \E i \in DOMAIN data.transfer_lines : LineUncovered(data, i)
        /\ \A i \in DOMAIN data.transfer_lines :
               Key(data.from_shop_id, PRODUCT, data.transfer_lines[i].product_id)
                   \in DOMAIN stock}

\* The answers to requests that carry the number of a stored document.
DuplicateAnswers ==
    {create_transfer(DB, [transfer_number |-> transfers[i].transfer_number] @@ b).code :
        i \in DOMAIN transfers, b \in TransferBodies(One)}
    \cup {create_production_run(DB, [data EXCEPT !.run_number = runs[i].run_number]).code :
            i \in DOMAIN runs, data \in RunRequests(One)}
    \cup {create_return(DB, [data EXCEPT !.return_number = returns[i].return_number]).code :
            i \in DOMAIN returns, data \in ReturnRequests}

\* The answers to receiving a transfer that is not pending and to
\* completing a run that is not planned.
StateConflictAnswers ==
    {receive_transfer(DB, id).code : id \in NotPendingIds}
    \cup {complete_production_run(DB, id).code : id \in NotPlannedIds}

\* The answers to transfers and completions that are short of stock.
ShortfallAnswers ==
    {create_transfer(DB, data).code : data \in ShortTransfers}
    \cup {complete_production_run(DB, id).code :
            id \in {r \in PlannedIds :
                      /\ ~Covered(runs[r])
                      /\ \A i \in DOMAIN runs[r].production_consumptions :
                           Key(Warehouse, RAW_MATERIAL,
                               runs[r].production_consumptions[i].raw_material_id)
                               \in DOMAIN stock}}

\* C25: shortfalls and state conflicts are answered in the conflict class
\* (409), duplicate numbers in the bad-request class (400), and no state
\* conflict gets the answer of a duplicate number.
C25_FailureClasses ==
    /\ ShortfallAnswers \subseteq {HTTP_409_CONFLICT}
    /\ StateConflictAnswers \subseteq {HTTP_409_CONFLICT}
    /\ DuplicateAnswers \subseteq {HTTP_400_BAD_REQUEST}
    /\ StateConflictAnswers \cap DuplicateAnswers = {}

\* The part that holds: shortfalls are answered 409 and duplicate numbers
\* 400.
C25_ShortfallAndDuplicate ==
    /\ ShortfallAnswers \subseteq {HTTP_409_CONFLICT}
    /\ DuplicateAnswers \subseteq {HTTP_400_BAD_REQUEST}

\* ------------------------------------------------------------------ returns against no sale
\* C26: a return whose sale_id is given and names no stored sale is
\* answered 404 and leaves returns, stock and movements as they were.
C26_UnknownSaleNotFound ==
    \A data \in ReturnRequests :
        /\ data.sale_id # None
        /\ data.sale_id \notin DOMAIN sales
        /\ ~ReturnNumberExists(DB, data.return_number)
        => create_return(DB, data) = Fail(HTTP_404_NOT_FOUND, DB)

\* ------------------------------------------------------------------ a completion, statement by statement
\* complete_production_run inside its session: the handler changes the
\* objects of the session (st, mv) and the database keeps its committed
\* rows until db.commit(); when the handler raises, get_session closes the
\* session with the changes uncommitted.
SeedRuns ==
    {[run_number |-> 1, planned_quantity |-> 2, labor_cost |-> 1, overhead_cost |-> 2,
      production_lines |-> <<[product_id |-> 1, planned_quantity |-> 1]>>,
      production_consumptions |-> c] :
        c \in {<<>>} \cup Lines([raw_material_id : RawMaterials,
                                 planned_consumption : Quantities], OneOrTwo)}

CompleteIdle ==
    [pc |-> "idle", id |-> None, st |-> EmptyDB.stock, mv |-> <<>>, code |-> 0]

\* The ledger after a purchase and the creation of a run, with the product
\* at no shop or at both.
InitComplete ==
    \E base \in {EmptyDB} \cup {Stocked(q) : q \in Quantities},
       p \in Quantities, run \in SeedRuns :
        LET db == create_production_run(create_purchase(base, SeedPurchase(p)).db, run).db
        IN  /\ stock = db.stock
            /\ moves = db.moves
            /\ sales = db.sales
            /\ transfers = db.transfers
            /\ runs = db.runs
            /\ purchases = db.purchases
            /\ returns = db.returns
            /\ last = [op |-> "create_production_run", code |-> HTTP_200_OK,
                       before |-> db.stock]
            /\ sess = CompleteIdle

\* Variant: closing the session commits what it changed.
ClosedFlushed(committed, pending) == pending

\* What the database holds once a session with uncommitted changes is
\* closed: the committed rows.
Closed(committed, pending) == committed

\* The handler raises: the session keeps what it changed so far.
Raise(code) ==
    /\ sess' = [sess EXCEPT !.pc = "raised", !.code = code]
    /\ UNCHANGED <<stock, moves, sales, transfers, runs, purchases, returns, last>>

\* A request arrives and gets a session.
CompleteArrive ==
    /\ sess.pc \in {"idle", "done"}
    /\ \E production_run_id \in Ids(runs) :
        sess' = [CompleteIdle EXCEPT !.pc = "validate", !.id = production_run_id,
                                     !.st = stock]
    /\ UNCHANGED <<stock, moves, sales, transfers, runs, purchases, returns, last>>

\* "Get production run", the status check and "Validate raw material
\* availability".
CompleteChecks ==
    /\ sess.pc = "validate"
    /\ IF sess.id \notin DOMAIN runs THEN Raise(HTTP_404_NOT_FOUND)
       ELSE IF RunNotPlanned(runs[sess.id]) THEN Raise(HTTP_400_BAD_REQUEST)
       ELSE IF ConsumptionValidate(sess.st, runs[sess.id].production_consumptions)
                   # HTTP_200_OK
       THEN Raise(ConsumptionValidate(sess.st, runs[sess.id].production_consumptions))
       ELSE /\ sess' = [sess EXCEPT !.pc = "consume"]
            /\ UNCHANGED <<stock, moves, sales, transfers, runs, purchases, returns, last>>

\* "Process raw material consumption", on the session's objects.
ConsumeAll ==
    /\ sess.pc = "consume"
    /\ LET cons == runs[sess.id].production_consumptions IN
       sess' = [sess EXCEPT
                !.pc = IF RawMaterialMissing(cons) THEN "raised" ELSE "produce",
                !.code = IF RawMaterialMissing(cons) THEN ServerError ELSE 0,
                !.st = Consume(@, cons),
                !.mv = @ \o ConsumeMovements(cons, sess.id)]
    /\ UNCHANGED <<stock, moves, sales, transfers, runs, purchases, returns, last>>

\* "Process production lines", on the session's objects; the product
\* lookup raises when it finds more than one row.
ProduceAll ==
    /\ sess.pc = "produce"
    /\ LET lines == runs[sess.id].production_lines IN
       IF ProductAmbiguous(sess.st, lines) THEN Raise(ServerError)
       ELSE /\ sess' = [sess EXCEPT !.pc = "commit",
                                    !.st = Produce(@, lines),
                                    !.mv = @ \o ProduceMovements(lines, sess.id)]
            /\ UNCHANGED <<stock, moves, sales, transfers, runs, purchases, returns, last>>

\* "Update production run" and await db.commit()
CommitComplete ==
    /\ sess.pc = "commit"
    /\ stock' = sess.st
    /\ moves' = moves \o sess.mv
    /\ runs' = [runs EXCEPT ![sess.id] =
                    [@ EXCEPT !.total_cost = TotalCost(runs[sess.id]),
                              !.status = "completed",
                              !.actual_quantity = runs[sess.id].planned_quantity]]
    /\ sess' = [sess EXCEPT !.pc = "done", !.code = HTTP_200_OK]
    /\ last' = [op |-> "complete_production_run", code |-> HTTP_200_OK, before |-> stock]
    /\ UNCHANGED <<sales, transfers, purchases, returns>>

\* get_session: finally: await session.close(), after the handler raised.
CloseSession ==
    /\ sess.pc = "raised"
    /\ stock' = Closed(stock, sess.st)
    /\ moves' = Closed(moves, moves \o sess.mv)
    /\ sess' = [sess EXCEPT !.pc = "done"]
    /\ last' = [op |-> "complete_production_run", code |-> sess.code, before |-> stock]
    /\ UNCHANGED <<sales, transfers, runs, purchases, returns>>

NextComplete ==
    \/ CompleteArrive
    \/ CompleteChecks
    \/ ConsumeAll
    \/ ProduceAll
    \/ CommitComplete
    \/ CloseSession

SpecComplete == InitComplete /\ [][NextComplete]_vars

\* C27: when a request fails, whatever it had changed within its session,
\* the committed stock, movements and documents are what they were before
\* the request.
C27_FailureCommitsNothing ==
    [][sess.pc = "raised" /\ sess'.pc = "done" =>
          /\ stock' = stock
          /\ moves' = moves
          /\ runs' = runs
          /\ stock = last'.before]_vars

\* A completion has failed with a 500 after it had deducted its
\* consumptions in its session; the run is still planned and the committed
\* stock is not what the session held.
C27_Witness ==
    /\ sess.pc = "done"
    /\ sess.code = ServerError
    /\ sess.mv # <<>>
    /\ sess.st # stock
    /\ runs[sess.id].status = "planned"

\* ------------------------------------------------------------------ planning a run
\* Run requests of one or two lines with planned quantities of one and two
\* units, with consumption rows or without.
PlanRequests ==
    [run_number : Numbers(runs), planned_quantity : {2}, labor_cost : {1},
     overhead_cost : {2},
     production_lines : Lines([product_id : Products, planned_quantity : Quantities],
                              OneOrTwo),
     production_consumptions :
        {<<>>} \cup Lines([raw_material_id : RawMaterials,
                           planned_consumption : Quantities], One)]

\* The rows the fabric rule of product 1 gives the lines of a request.
DerivedRows(lines) ==
    [i \in DOMAIN lines |->
        [raw_material_id |-> fabric_rules[1].raw_material_id,
         planned_consumption |->
             fabric_rules[1].consumption_per_unit * lines[i].planned_quantity]]

\* C28: creating a production run changes no stock position and writes no
\* movement; the run is stored PLANNED with the consumption rows of the
\* request or, when it has none, with consumption_per_unit x
\* planned_quantity per line and fabric rule.
C28_PlanningHasNoLedgerEffect ==
    \A data \in PlanRequests :
        LET out == create_production_run(DB, data) IN
        /\ out.db.stock = stock
        /\ out.db.moves = moves
        /\ out.code = HTTP_200_OK =>
             LET run == out.db.runs[Len(runs) + 1] IN
             /\ Len(out.db.runs) = Len(runs) + 1
             /\ run.status = "planned"
             /\ run.production_consumptions =
                  IF data.production_consumptions # <<>>
                  THEN data.production_consumptions
                  ELSE DerivedRows(data.production_lines)

\* A run was just created on a ledger that holds raw material, and the
\* stock is what it was.
C28_Witness ==
    /\ last.op = "create_production_run"
    /\ last.code = HTTP_200_OK
    /\ Key(Warehouse, RAW_MATERIAL, 1) \in DOMAIN stock
    /\ last.before = stock
    /\ runs[Len(runs)].status = "planned"
    /\ runs[Len(runs)].production_consumptions # <<>>

\* ------------------------------------------------------------------ reserved stock
\* Transfers and sales of product stock that a return brought in, taken
\* one at a time.
InitReserve ==
    \E q \in Quantities :
        LET db == create_return(EmptyDB, SeedReturn(q)).db IN
        /\ stock = db.stock
        /\ moves = db.moves
        /\ sales = db.sales
        /\ transfers = db.transfers
        /\ runs = db.runs
        /\ purchases = db.purchases
        /\ returns = db.returns
        /\ last = [op |-> "create_return", code |-> HTTP_200_OK,
                   before |-> EmptyDB.stock]
        /\ sess = NoSessions

NextReserve ==
    \/ \E data \in TransferRequests(OneOrTwo) :
        Respond("create_transfer", create_transfer(DB, data))
    \/ \E transfer_id \in Ids(transfers) :
        Respond("receive_transfer", receive_transfer(DB, transfer_id))
    \/ \E caller \in Callers, data \in SaleRequests(One) :
        /\ data.shop_id = caller[2]
        /\ Respond("create_sale", create_sale(DB, caller[1], data))

SpecReserve == InitReserve /\ [][NextReserve]_vars

\* The lines of the pending transfers out of the shop of position k.
PendingOut(k) == TransferredAt("pending", "from_shop_id", k)

\* An outcome that leaves every reservation as it is.
ReservedSame(out) ==
    \A k \in ItemKeys \cup DOMAIN out.db.stock :
        Reserved(out.db.stock, k) = Reserved(stock, k)

\* C29: in every committed state the reserved quantity of a position is the
\* sum of the lines of its product over the pending transfers out of its
\* shop; only an accepted transfer creation raises a reservation, only an
\* accepted receipt lowers one, and no sale, adjustment, return or purchase
\* changes one.
C29_ReservedIsPendingOut ==
    /\ \A k \in ItemKeys \cup DOMAIN stock : Reserved(stock, k) = PendingOut(k)
    /\ \A k \in ItemKeys :
         /\ Reserved(stock, k) > Reserved(last.before, k) =>
                last.op = "create_transfer" /\ last.code = HTTP_200_OK
         /\ Reserved(stock, k) < Reserved(last.before, k) =>
                last.op = "receive_transfer" /\ last.code = HTTP_200_OK
    /\ \A data \in ReturnRequests : ReservedSame(create_return(DB, data))
    /\ \A data \in PurchaseRequests(One) : ReservedSame(create_purchase(DB, data))
    /\ \A adjustment \in AdjustRequests :
         \A k \in AdjustMatches(stock, adjustment) \cup {<<>>} :
            ReservedSame(adjust_stock(DB, adjustment, k))

\* A receipt has just cleared the reservation of a position.
C29_Witness ==
    /\ last.op = "receive_transfer"
    /\ last.code = HTTP_200_OK
    /\ \E k \in ItemKeys :
         /\ Reserved(last.before, k) > 0
         /\ Reserved(stock, k) = 0
         /\ PendingOut(k) = 0

\* A two-line transfer is pending and both of its lines are reserved.
C29_PendingWitness ==
    /\ last.op = "create_transfer"
    /\ last.code = HTTP_200_OK
    /\ Len(transfers[Len(transfers)].transfer_lines) = 2
    /\ \E k \in ItemKeys : Reserved(stock, k) = PendingOut(k) /\ PendingOut(k) > 1

\* ------------------------------------------------------------------ one item on several lines
\* What position k can give: its on-hand quantity less its reservation.
AvailableAt(k) == OnHand(stock, k) - Reserved(stock, k)

\* Position k is left with its reservation covered and nothing owed.
LeftSound(out, k) ==
    /\ OnHand(out.db.stock, k) >= Reserved(out.db.stock, k)
    /\ OnHand(out.db.stock, k) >= 0

\* C30: a sale is accepted only if, for every product, the summed quantity
\* of its lines of that product is within the available quantity of the
\* position, and an accepted sale leaves the position with on-hand
\* quantity neither below its reserved quantity nor below zero.
C30_SaleLinesSummed ==
    \A caller \in Callers, data \in SaleRequests(OneOrTwo) :
        LET out == create_sale(DB, caller[1], data) IN
        data.shop_id = caller[2] /\ out.code = HTTP_200_OK =>
            \A p \in Products :
                LET k == Key(data.shop_id, PRODUCT, p) IN
                /\ LinesSum(data.sale_lines, "product_id", p, "quantity") <= AvailableAt(k)
                /\ LeftSound(out, k)

\* The same of a transfer and the position at its source.
C30_TransferLinesSummed ==
    \A data \in TransferRequests(OneOrTwo) :
        LET out == create_transfer(DB, data) IN
        out.code = HTTP_200_OK =>
            \A p \in Products :
                LET k == Key(data.from_shop_id, PRODUCT, p) IN
                /\ LinesSum(data.transfer_lines, "product_id", p, "quantity")
                     <= AvailableAt(k)
                /\ LeftSound(out, k)

\* The same of a completion and the raw material its run consumes.
C30_RunRowsSummed ==
    \A production_run_id \in DOMAIN runs :
        LET out == complete_production_run(DB, production_run_id) IN
        out.code = HTTP_200_OK =>
            \A m \in RawMaterials :
                LET k == Key(Warehouse, RAW_MATERIAL, m) IN
                /\ LinesSum(runs[production_run_id].production_consumptions,
                            "raw_material_id", m, "planned_consumption") <= AvailableAt(k)
                /\ LeftSound(out, k)

====
